---- MODULE Spec2Model ----
(***************************************************************************)
(* Water-tank telemetry service: channel registry, ingestion over HTTP     *)
(* (JSON body, query parameters), CoAP and MQTT, and the query service,    *)
(* on top of two MongoDB collections (channels, data).                     *)
(*                                                                         *)
(* Every handler is an asyncio coroutine: the code between two awaited     *)
(* store calls runs without interruption, and other handlers may run at    *)
(* each await.  One action of the model is one awaited store call of a     *)
(* handler together with the synchronous code that follows it up to the    *)
(* next await (or the return).                                             *)
(***************************************************************************)
EXTENDS Integers, Sequences, FiniteSets, TLC

VARIABLES
    channels,   \* db.channels: sequence of channel documents, in insertion order
    data,       \* db.data: sequence of data documents, in insertion order
    now,        \* the wall clock read by datetime.now / datetime.utcnow
    calls,      \* number of requests issued so far
    procs,      \* the requests in progress or just answered, one per client slot
    removed,    \* history: the <<channel, field>> pairs a returned removal took
                \* out of the channel and that the channel has not held since
    main_event_loop,    \* the state of the asyncio loop of the application
    handoff     \* the coroutines the MQTT thread has submitted to the loop
                \* and that the loop has not started yet

vars == <<channels, data, now, calls, procs, removed, main_event_loop, handoff>>

(***************************************************************************)
(* Bounds of the model.                                                    *)
(***************************************************************************)
MaxCalls == 2       \* requests issued in one behaviour
MaxTime == 1        \* ticks of the wall clock in one behaviour

Procs == {"p1", "p2"}
Names == {"c1", "c2"}
Keys == {"K1", "K2"}

(***************************************************************************)
(* Values of a document: BSON values, tagged by their type.  A number is   *)
(* kept in tenths (752 is 75.2).                                           *)
(***************************************************************************)
Num(n) == [k |-> "num", n |-> n, s |-> ""]
Str(s) == [k |-> "str", n |-> 0, s |-> s]
Date(t) == [k |-> "date", n |-> t, s |-> ""]
Oid(i) == [k |-> "oid", n |-> i, s |-> ""]
Bool(b) == [k |-> "bool", n |-> IF b THEN 1 ELSE 0, s |-> ""]
Null == [k |-> "null", n |-> 0, s |-> ""]
NA == Str("N/A")

EmptyBag == [x \in {} |-> NA]

\* The strings Python's float() accepts, with the number each one parses to.
NumericStrings == {"75.2", "60"}
ParseFloat(s) == IF s = "75.2" THEN 752 ELSE 600

\* float(value): the number, or the exception float() raises.
float(v) ==
    CASE v.k = "num" -> [exc |-> "", val |-> v]
      [] v.k = "bool" -> [exc |-> "", val |-> Num(10 * v.n)]
      [] v.k = "str" /\ v.s \in NumericStrings -> [exc |-> "", val |-> Num(ParseFloat(v.s))]
      [] v.k = "str" -> [exc |-> "ValueError", val |-> v]
      [] OTHER -> [exc |-> "TypeError", val |-> v]

\* try: float(value) except (ValueError, TypeError): value
CoerceJson(v) == IF float(v).exc = "" THEN float(v).val ELSE v
\* try: float(value) except ValueError: value   (query parameters are strings)
CoerceQuery(v) == IF float(v).exc = "" THEN float(v).val ELSE v
\* cleaned_data[key] = value
CoerceMqtt(v) == v

\* The conversion each path applies to the value of an accepted pair.
Coerce(path, v) ==
    CASE path = "json" -> CoerceJson(v)
      [] path = "query" -> CoerceQuery(v)
      [] path = "mqtt" -> CoerceMqtt(v)
      [] path = "seed" -> v

Range(s) == {s[i] : i \in DOMAIN s}

(***************************************************************************)
(* The store: the MongoDB operations the handlers call.                    *)
(***************************************************************************)
NoChan == [channel_name |-> "", api_key |-> "", fields |-> <<>>]

\* Index of the first channel document with this name, 0 when there is none.
FindIdx(chs, name) ==
    IF \E i \in DOMAIN chs : chs[i].channel_name = name
    THEN CHOOSE i \in DOMAIN chs :
            /\ chs[i].channel_name = name
            /\ \A j \in DOMAIN chs : chs[j].channel_name = name => i <= j
    ELSE 0

\* db.channels.find_one({"channel_name": name}); NoChan stands for None.
find_one(chs, name) == IF FindIdx(chs, name) = 0 THEN NoChan ELSE chs[FindIdx(chs, name)]

\* db.channels.delete_one({"channel_name": name})
delete_one(chs, name) ==
    IF FindIdx(chs, name) = 0 THEN chs
    ELSE [i \in 1..(Len(chs) - 1) |-> IF i < FindIdx(chs, name) THEN chs[i] ELSE chs[i + 1]]

\* db.data.delete_many({"tank_id": name})
delete_many(docs, name) == SelectSeq(docs, LAMBDA d : d["tank_id"] # Str(name))

\* An update that stops at the first document it matches.
update_one_set_na(docs, name, field) ==
    [i \in DOMAIN docs |->
        IF /\ docs[i]["tank_id"] = Str(name)
           /\ \A j \in 1..(i - 1) : docs[j]["tank_id"] # Str(name)
        THEN (field :> NA) @@ docs[i] ELSE docs[i]]

\* db.data.update_many({"tank_id": name}, {"$set": {field: "N/A"}})
update_many_set_na(docs, name, field) ==
    [i \in DOMAIN docs |->
        IF docs[i]["tank_id"] = Str(name) THEN (field :> NA) @@ docs[i] ELSE docs[i]]

\* db.channels.update_one({"channel_name": name}, {"$pull": {"fields": field}})
update_one_pull(chs, name, field) ==
    IF FindIdx(chs, name) = 0 THEN chs
    ELSE [chs EXCEPT ![FindIdx(chs, name)].fields = SelectSeq(@, LAMBDA f : f # field)]

\* db.channels.update_one({"channel_name": name}, {"$set": {"fields": fields}})
update_one_set_fields(chs, name, fields) ==
    IF FindIdx(chs, name) = 0 THEN chs
    ELSE [chs EXCEPT ![FindIdx(chs, name)].fields = fields]

\* The removals that still stand: those whose field no channel document of
\* that name lists.
Prune(pairs, chs) ==
    {pr \in pairs : \A i \in DOMAIN chs :
        chs[i].channel_name = pr[1] => pr[2] \notin Range(chs[i].fields)}

\* The documents of db.data.find({"tank_id": name}), in insertion order.
find_data(docs, name) == SelectSeq(docs, LAMBDA d : d["tank_id"] = Str(name))

(***************************************************************************)
(* Requests.  A client slot holds the request it issued, the handler's     *)
(* local variables at the await it is suspended at, and, once the handler  *)
(* has returned, the response.                                             *)
(***************************************************************************)
Idle ==
    [pc |-> "idle", op |-> "", id |-> 0,
     name |-> "", key |-> "", field |-> "",      \* channel_name, api_key, field_name
     bag |-> EmptyBag,                            \* data / initial_values / payload
     add |-> <<>>, rem |-> <<>>,                  \* fields / add_fields, remove_fields
     todo |-> <<>>,                               \* remove_fields still to be overwritten
     ts |-> -1,                                   \* the timestamp the handler stamped
     st |-> -1, et |-> -1, lim |-> 0,             \* start_time, end_time, limit
     chan |-> NoChan,                             \* the channel document looked up
     doc |-> EmptyBag,                            \* the document about to be inserted
     cur |-> <<>>,                                \* list(current_fields) / projection
     status |-> "", out |-> <<>>]                 \* the response

Free(p) == procs[p].pc \in {"idle", "done"}

\* Clients are interchangeable: a new request takes slot p1 when it is free,
\* and slot p2 only while the request in slot p1 is still in progress.
\* Handlers are coroutines of the main loop: none starts unless it runs.
Start(p) ==
    /\ main_event_loop = "running"
    /\ Free(p)
    /\ p = "p2" => ~Free("p1")

Begin(p) ==
    /\ Start(p)
    /\ calls < MaxCalls

Req(op, name, key) == [Idle EXCEPT !.op = op, !.id = calls + 1, !.name = name, !.key = key]

Return(r, status) == [r EXCEPT !.pc = "done", !.status = status]

\* A write path that keeps every pair of the bag, also those whose name is
\* no field of the channel.
DataDoc_unfiltered(channel_name, t, fields, bag, path) ==
    [x \in {"tank_id", "timestamp"} \cup DOMAIN bag |->
        IF x \in DOMAIN bag THEN Coerce(path, bag[x])
        ELSE IF x = "tank_id" THEN Str(channel_name) ELSE Date(t)]

\* The document a write path builds: tank_id and timestamp first, then each
\* pair of the bag whose name is a field of the channel, coerced.
DataDoc(channel_name, t, fields, bag, path) ==
    [x \in {"tank_id", "timestamp"} \cup (DOMAIN bag \cap fields) |->
        IF x \in DOMAIN bag \cap fields THEN Coerce(path, bag[x])
        ELSE IF x = "tank_id" THEN Str(channel_name) ELSE Date(t)]

\* insert_one gives the document its _id.
WithId(doc, id) == ("_id" :> Oid(id)) @@ doc

(***************************************************************************)
(* POST /channels : create_channel                                         *)
(***************************************************************************)
\* A seed document that fills in no sentinel.
SeedDoc_bare(channel_name, t, fields, initial_values) ==
    DataDoc(channel_name, t, Range(fields), initial_values, "seed")

\* A seed document that keeps every pair of initial_values.
SeedDoc_unfiltered(channel_name, t, fields, initial_values) ==
    IF DOMAIN initial_values # {}
    THEN DataDoc_unfiltered(channel_name, t, Range(fields), initial_values, "seed")
    ELSE [x \in {"tank_id", "timestamp"} \cup Range(fields) |->
            IF x \in Range(fields) THEN NA
            ELSE IF x = "tank_id" THEN Str(channel_name) ELSE Date(t)]

SeedDoc(channel_name, t, fields, initial_values) ==
    IF DOMAIN initial_values # {}
    THEN DataDoc(channel_name, t, Range(fields), initial_values, "seed")
    ELSE [x \in {"tank_id", "timestamp"} \cup Range(fields) |->
            IF x \in Range(fields) THEN NA
            ELSE IF x = "tank_id" THEN Str(channel_name) ELSE Date(t)]

\* A registration that does not look for an existing channel of the name.
create_channel_find_unchecked(p, name, fields, initial_values, api_key) ==
    /\ Begin(p)
    /\ LET r == [Req("create_channel", name, api_key) EXCEPT !.add = fields, !.bag = initial_values]
        IN procs' = [procs EXCEPT ![p] = [r EXCEPT !.pc = "create_insert_channel"]]
    /\ calls' = calls + 1
    /\ UNCHANGED <<channels, data, now, removed, main_event_loop, handoff>>

create_channel_find(p, name, fields, initial_values, api_key) ==
    /\ Begin(p)
    /\ LET r == [Req("create_channel", name, api_key) EXCEPT !.add = fields, !.bag = initial_values]
        IN procs' = [procs EXCEPT ![p] =
                IF find_one(channels, name) # NoChan THEN Return(r, "DuplicateChannel")
                ELSE [r EXCEPT !.pc = "create_insert_channel"]]
    /\ calls' = calls + 1
    /\ UNCHANGED <<channels, data, now, removed, main_event_loop, handoff>>

create_channel_insert(p) ==
    /\ procs[p].pc = "create_insert_channel"
    /\ LET r == procs[p]
       IN /\ channels' = Append(channels,
                [channel_name |-> r.name, api_key |-> r.key, fields |-> r.add])
          /\ procs' = [procs EXCEPT ![p] =
                [r EXCEPT !.pc = "create_insert_data", !.ts = now,
                          !.doc = SeedDoc(r.name, now, r.add, r.bag)]]
    /\ removed' = Prune(removed, channels')
    /\ UNCHANGED <<data, now, calls, main_event_loop, handoff>>

create_channel_seed(p) ==
    /\ procs[p].pc = "create_insert_data"
    /\ data' = Append(data, WithId(procs[p].doc, procs[p].id))
    /\ procs' = [procs EXCEPT ![p] = Return(procs[p], "Created")]
    /\ UNCHANGED <<channels, now, calls, removed, main_event_loop, handoff>>

(***************************************************************************)
(* POST /channels/{channel_name}/data : write_data                         *)
(***************************************************************************)
\* A handler that looks for valid fields in the bag before it compares the key.
write_data_find_fieldsfirst(p, name, api_key, bag) ==
    /\ Begin(p)
    /\ LET r == [Req("write_data", name, api_key) EXCEPT !.bag = bag]
            channel == find_one(channels, name)
            channel_fields == Range(channel.fields)
        IN procs' = [procs EXCEPT ![p] =
                IF channel = NoChan THEN Return(r, "ChannelNotFound")
                ELSE IF DOMAIN bag \cap channel_fields = {}
                     THEN Return([r EXCEPT !.chan = channel], "NoValidFields")
                ELSE IF api_key # channel.api_key THEN Return([r EXCEPT !.chan = channel], "InvalidApiKey")
                ELSE [r EXCEPT !.pc = "write_insert", !.chan = channel, !.ts = now,
                               !.doc = DataDoc(name, now, channel_fields, bag, "json")]]
    /\ calls' = calls + 1
    /\ UNCHANGED <<channels, data, now, removed, main_event_loop, handoff>>

\* A handler that stores the record it built although the bag held no field
\* of the channel, and then answers NoValidFields.
write_data_find_emptyrecord(p, name, api_key, bag) ==
    /\ Begin(p)
    /\ LET r == [Req("write_data", name, api_key) EXCEPT !.bag = bag]
            channel == find_one(channels, name)
            channel_fields == Range(channel.fields)
            rejected == channel # NoChan /\ api_key = channel.api_key
                        /\ DOMAIN bag \cap channel_fields = {}
        IN /\ procs' = [procs EXCEPT ![p] =
                IF channel = NoChan THEN Return(r, "ChannelNotFound")
                ELSE IF api_key # channel.api_key THEN Return([r EXCEPT !.chan = channel], "InvalidApiKey")
                ELSE IF DOMAIN bag \cap channel_fields = {}
                     THEN Return([r EXCEPT !.chan = channel], "NoValidFields")
                ELSE [r EXCEPT !.pc = "write_insert", !.chan = channel, !.ts = now,
                               !.doc = DataDoc(name, now, channel_fields, bag, "json")]]
           /\ data' = IF rejected
                      THEN Append(data, WithId(DataDoc(name, now, channel_fields, bag, "json"), calls + 1))
                      ELSE data
    /\ calls' = calls + 1
    /\ UNCHANGED <<channels, now, removed, main_event_loop, handoff>>

write_data_find(p, name, api_key, bag) ==
    /\ Begin(p)
    /\ LET r == [Req("write_data", name, api_key) EXCEPT !.bag = bag]
            channel == find_one(channels, name)
            channel_fields == Range(channel.fields)
        IN procs' = [procs EXCEPT ![p] =
                IF channel = NoChan THEN Return(r, "ChannelNotFound")
                ELSE IF api_key # channel.api_key THEN Return([r EXCEPT !.chan = channel], "InvalidApiKey")
                ELSE IF DOMAIN bag \cap channel_fields = {}
                     THEN Return([r EXCEPT !.chan = channel], "NoValidFields")
                ELSE [r EXCEPT !.pc = "write_insert", !.chan = channel, !.ts = now,
                               !.doc = DataDoc(name, now, channel_fields, bag, "json")]]
    /\ calls' = calls + 1
    /\ UNCHANGED <<channels, data, now, removed, main_event_loop, handoff>>

write_data_insert(p) ==
    /\ procs[p].pc = "write_insert"
    /\ data' = Append(data, WithId(procs[p].doc, procs[p].id))
    /\ procs' = [procs EXCEPT ![p] = Return(procs[p], "Created")]
    /\ UNCHANGED <<channels, now, calls, removed, main_event_loop, handoff>>

(***************************************************************************)
(* GET /channels/{channel_name}/update : update_channel_data_by_query_params *)
(***************************************************************************)
update_query_find(p, name, api_key, bag) ==
    /\ Begin(p)
    /\ LET r == [Req("update_query", name, api_key) EXCEPT !.bag = bag]
            channel == find_one(channels, name)
            channel_fields == Range(channel.fields)
        IN procs' = [procs EXCEPT ![p] =
                IF api_key = "" THEN Return(r, "MissingApiKey")
                ELSE IF channel = NoChan THEN Return(r, "ChannelNotFound")
                ELSE IF api_key # channel.api_key THEN Return([r EXCEPT !.chan = channel], "InvalidApiKey")
                ELSE IF DOMAIN bag \cap channel_fields = {}
                     THEN Return([r EXCEPT !.chan = channel], "NoValidFields")
                ELSE [r EXCEPT !.pc = "query_insert", !.chan = channel, !.ts = now,
                               !.doc = DataDoc(name, now, channel_fields, bag, "query")]]
    /\ calls' = calls + 1
    /\ UNCHANGED <<channels, data, now, removed, main_event_loop, handoff>>

update_query_insert(p) ==
    /\ procs[p].pc = "query_insert"
    /\ data' = Append(data, WithId(procs[p].doc, procs[p].id))
    /\ procs' = [procs EXCEPT ![p] = Return(procs[p], "OK")]
    /\ UNCHANGED <<channels, now, calls, removed, main_event_loop, handoff>>

(***************************************************************************)
(* CoAP PUT /channels/{channel_name}/data : ChannelDataResource.render_put *)
(***************************************************************************)
render_put_find(p, name, api_key, bag) ==
    /\ Begin(p)
    /\ LET r == [Req("render_put", name, api_key) EXCEPT !.bag = bag]
            channel == find_one(channels, name)
            channel_fields == Range(channel.fields)
        IN procs' = [procs EXCEPT ![p] =
                IF api_key = "" THEN Return(r, "MissingApiKey")
                ELSE IF channel = NoChan THEN Return(r, "ChannelNotFound")
                ELSE IF api_key # channel.api_key THEN Return([r EXCEPT !.chan = channel], "InvalidApiKey")
                ELSE IF DOMAIN bag \cap channel_fields = {}
                     THEN Return([r EXCEPT !.chan = channel], "NoValidFields")
                ELSE [r EXCEPT !.pc = "put_insert", !.chan = channel, !.ts = now,
                               !.doc = DataDoc(name, now, channel_fields, bag, "json")]]
    /\ calls' = calls + 1
    /\ UNCHANGED <<channels, data, now, removed, main_event_loop, handoff>>

render_put_insert(p) ==
    /\ procs[p].pc = "put_insert"
    /\ data' = Append(data, WithId(procs[p].doc, procs[p].id))
    /\ procs' = [procs EXCEPT ![p] = Return(procs[p], "Created")]
    /\ UNCHANGED <<channels, now, calls, removed, main_event_loop, handoff>>

(***************************************************************************)
(* MQTT tanks/<channel_name>/data : on_message hands save_mqtt_data to the *)
(* main loop; save_mqtt_data compares no API key.                          *)
(***************************************************************************)
\* The value json.loads returns for a payload: a dict with its items, or a
\* value of another JSON type; "invalid" stands for a payload json.loads
\* raises JSONDecodeError on.
JsonObject(bag) == [json |-> "object", items |-> bag]
JsonArray == [json |-> "array", items |-> EmptyBag]
JsonInvalid == [json |-> "invalid", items |-> EmptyBag]

\* A callback that submits the coroutine twice.
on_message_twice(name, payload) ==
    /\ calls < MaxCalls
    /\ calls' = calls + 1
    /\ handoff' =
            IF payload.json # "invalid" /\ main_event_loop = "running"
            THEN handoff \o << [id |-> calls + 1, channel_name |-> name, data |-> payload],
                              [id |-> calls + 1, channel_name |-> name, data |-> payload] >>
            ELSE handoff
    /\ UNCHANGED <<channels, data, now, procs, removed, main_event_loop>>

\* on_message runs on the thread of the MQTT client.  It submits
\* save_mqtt_data(channel_name, data_payload) to the main loop with
\* run_coroutine_threadsafe when the loop is running, and only logs otherwise.
on_message(name, payload) ==
    /\ calls < MaxCalls
    /\ calls' = calls + 1
    /\ handoff' =
            IF payload.json # "invalid" /\ main_event_loop = "running"
            THEN Append(handoff, [id |-> calls + 1, channel_name |-> name, data |-> payload])
            ELSE handoff
    /\ UNCHANGED <<channels, data, now, procs, removed, main_event_loop>>

\* The main loop starts the coroutine submitted first.  data.items() raises
\* AttributeError when the payload is no dict, which ends the coroutine.
save_mqtt_data_find(p) ==
    /\ handoff # <<>>
    /\ Start(p)
    /\ LET name == Head(handoff).channel_name
            payload == Head(handoff).data
            r == [Idle EXCEPT !.op = "save_mqtt_data", !.id = Head(handoff).id,
                              !.name = name, !.bag = payload.items]
            channel == find_one(channels, name)
            allowed_fields == Range(channel.fields)
        IN procs' = [procs EXCEPT ![p] =
                IF channel = NoChan THEN Return(r, "Skipped")
                ELSE IF payload.json # "object" THEN Return([r EXCEPT !.chan = channel], "AttributeError")
                ELSE [r EXCEPT !.pc = "mqtt_insert", !.chan = channel, !.ts = now,
                               !.doc = DataDoc(name, now, allowed_fields, payload.items, "mqtt")]]
    /\ handoff' = Tail(handoff)
    /\ UNCHANGED <<channels, data, now, calls, removed, main_event_loop>>

save_mqtt_data_insert(p) ==
    /\ procs[p].pc = "mqtt_insert"
    /\ data' = Append(data, WithId(procs[p].doc, procs[p].id))
    /\ procs' = [procs EXCEPT ![p] = Return(procs[p], "Saved")]
    /\ UNCHANGED <<channels, now, calls, removed, main_event_loop, handoff>>

(***************************************************************************)
(* GET /channels : list_channels, GET /channels/{channel_name} : get_channel *)
(***************************************************************************)
ListLimit == 100

\* [{"channel_name": ..., "fields": ...} for c in find().to_list(100)]
channel_list(chs) ==
    [i \in 1..(IF Len(chs) < ListLimit THEN Len(chs) ELSE ListLimit) |->
        [channel_name |-> chs[i].channel_name, fields |-> chs[i].fields]]

list_channels(p) ==
    /\ Begin(p)
    /\ procs' = [procs EXCEPT ![p] =
            Return([Req("list_channels", "", "") EXCEPT !.out = channel_list(channels)], "OK")]
    /\ calls' = calls + 1
    /\ UNCHANGED <<channels, data, now, removed, main_event_loop, handoff>>

get_channel(p, name, api_key) ==
    /\ Begin(p)
    /\ LET r == Req("get_channel", name, api_key)
            channel == find_one(channels, name)
        IN procs' = [procs EXCEPT ![p] =
                IF channel = NoChan THEN Return(r, "ChannelNotFound")
                ELSE IF api_key # channel.api_key THEN Return([r EXCEPT !.chan = channel], "InvalidApiKey")
                ELSE Return([r EXCEPT !.chan = channel, !.out = <<channel>>], "OK")]
    /\ calls' = calls + 1
    /\ UNCHANGED <<channels, data, now, removed, main_event_loop, handoff>>

(***************************************************************************)
(* Sorting by timestamp as MongoDB does: by BSON type first, then by value. *)
(***************************************************************************)
TypeRank(v) ==
    CASE v.k = "null" -> 1
      [] v.k = "num" -> 2
      [] v.k = "str" -> 3
      [] v.k = "oid" -> 7
      [] v.k = "bool" -> 8
      [] v.k = "date" -> 9

\* Binary order of the strings a document of the model can hold.
StrOrder == <<"", "60", "75.2", "N/A", "c1", "c2", "online">>
StrRank(s) == CHOOSE i \in DOMAIN StrOrder : StrOrder[i] = s

\* v sorts before or with w
Leq(v, w) ==
    \/ TypeRank(v) < TypeRank(w)
    \/ /\ TypeRank(v) = TypeRank(w)
       /\ IF v.k = "str" THEN StrRank(v.s) <= StrRank(w.s) ELSE v.n <= w.n

\* The orders in which find(...).sort("timestamp", dir) may return docs:
\* documents with equal timestamps come in any order.
Sorted(docs, dir) ==
    {[i \in DOMAIN docs |-> docs[q[i]]] : q \in
        {q \in Permutations(DOMAIN docs) :
            \A i, j \in DOMAIN docs : i < j =>
                IF dir = 1 THEN Leq(docs[q[i]]["timestamp"], docs[q[j]]["timestamp"])
                ELSE Leq(docs[q[j]]["timestamp"], docs[q[i]]["timestamp"])}}

\* value.isoformat() if isinstance(value, datetime.datetime) else value: the
\* ISO 8601 text of a time is written as the string "iso8601" tagged with the
\* time it denotes.
isoformat(v) == IF v.k = "date" THEN [k |-> "str", n |-> v.n, s |-> "iso8601"] ELSE v

\* json.dumps(doc): a datetime or an ObjectId among the values raises TypeError.
json_dumps(doc) ==
    IF \E x \in DOMAIN doc : doc[x].k \in {"date", "oid"}
    THEN [exc |-> "TypeError", val |-> doc]
    ELSE [exc |-> "", val |-> doc]

\* to_list(n)
to_list(docs, n) == SubSeq(docs, 1, IF Len(docs) < n THEN Len(docs) ELSE n)

\* A find without a projection: the whole document.
Project_whole(doc, keys) == doc

\* A projection {"_id": 0, f: 1, ...}
Project(doc, keys) == [x \in DOMAIN doc \cap keys |-> doc[x]]

(***************************************************************************)
(* GET /channels/{channel_name}/data : get_historical_data                 *)
(***************************************************************************)
\* A query whose bounds are exclusive ($gt, $lt).
InRange_exclusive(doc, start_time, end_time) ==
    /\ start_time # -1 => doc["timestamp"].k = "date" /\ doc["timestamp"].n > start_time
    /\ end_time # -1 => doc["timestamp"].k = "date" /\ doc["timestamp"].n < end_time

InRange(doc, start_time, end_time) ==
    /\ start_time # -1 => doc["timestamp"].k = "date" /\ doc["timestamp"].n >= start_time
    /\ end_time # -1 => doc["timestamp"].k = "date" /\ doc["timestamp"].n <= end_time

get_historical_data_find(p, name, api_key, field_name, start_time, end_time, limit) ==
    /\ Begin(p)
    /\ LET r == [Req("get_historical_data", name, api_key) EXCEPT
                        !.field = field_name, !.st = start_time, !.et = end_time, !.lim = limit]
            channel == find_one(channels, name)
        IN procs' = [procs EXCEPT ![p] =
                IF channel = NoChan THEN Return(r, "ChannelNotFound")
                ELSE IF api_key # channel.api_key THEN Return([r EXCEPT !.chan = channel], "InvalidApiKey")
                ELSE IF field_name # "" /\ field_name \notin Range(channel.fields)
                     THEN Return([r EXCEPT !.chan = channel], "InvalidField")
                ELSE [r EXCEPT !.pc = "history_find", !.chan = channel,
                               !.cur = IF field_name # "" THEN <<field_name>> ELSE channel.fields]]
    /\ calls' = calls + 1
    /\ UNCHANGED <<channels, data, now, removed, main_event_loop, handoff>>

\* The lists find(query, projection).sort("timestamp", 1).to_list(limit) may
\* return.
historical_data(docs, name, start_time, end_time, limit, fields) ==
    LET found == SelectSeq(find_data(docs, name), LAMBDA d : InRange(d, start_time, end_time))
    IN {[i \in DOMAIN to_list(sorted, limit) |->
                LET entry == Project(sorted[i], {"timestamp"} \cup Range(fields))
                IN [entry EXCEPT !["timestamp"] = isoformat(@)]] :
            sorted \in Sorted(found, 1)}

get_historical_data_query(p) ==
    /\ procs[p].pc = "history_find"
    /\ LET r == procs[p]
       IN \E out \in historical_data(data, r.name, r.st, r.et, r.lim, r.cur) :
            procs' = [procs EXCEPT ![p] = Return([r EXCEPT !.out = out], "OK")]
    /\ UNCHANGED <<channels, data, now, calls, removed, main_event_loop, handoff>>

(***************************************************************************)
(* GET /data/{channel_name}/latest : get_latest_data                       *)
(* CoAP GET /channels/{channel_name}/latest : ChannelLatestDataResource    *)
(***************************************************************************)
get_latest_data_find(p, name, api_key, coap) ==
    /\ Begin(p)
    /\ LET r == Req(IF coap THEN "coap_latest" ELSE "get_latest_data", name, api_key)
            channel == find_one(channels, name)
        IN procs' = [procs EXCEPT ![p] =
                IF coap /\ api_key = "" THEN Return(r, "MissingApiKey")
                ELSE IF channel = NoChan THEN Return(r, "ChannelNotFound")
                ELSE IF api_key # channel.api_key THEN Return([r EXCEPT !.chan = channel], "InvalidApiKey")
                ELSE [r EXCEPT !.pc = "latest_find", !.chan = channel]]
    /\ calls' = calls + 1
    /\ UNCHANGED <<channels, data, now, removed, main_event_loop, handoff>>

\* latest_entry after the handler's clean-up: the HTTP handler replaces _id by
\* str(_id), the CoAP resource deletes it; both pass a datetime timestamp
\* through isoformat().
latest_entry(doc, coap) ==
    LET keys == IF coap THEN DOMAIN doc \ {"_id"} ELSE DOMAIN doc
    IN [x \in keys |->
            IF x = "_id" THEN [k |-> "str", n |-> doc[x].n, s |-> "objectid"]
            ELSE IF x = "timestamp" THEN isoformat(doc[x])
            ELSE doc[x]]

get_latest_data_query(p) ==
    /\ procs[p].pc = "latest_find"
    /\ LET r == procs[p]
       IN \E sorted \in Sorted(find_data(data, r.name), -1) :
            procs' = [procs EXCEPT ![p] =
                IF to_list(sorted, 1) = <<>> THEN Return(r, "NoData")
                ELSE LET entry == latest_entry(to_list(sorted, 1)[1], r.op = "coap_latest")
                     IN IF r.op = "coap_latest" /\ json_dumps(entry).exc # ""
                        THEN Return(r, "InternalServerError")
                        ELSE Return([r EXCEPT !.out = <<entry>>], "OK")]
    /\ UNCHANGED <<channels, data, now, calls, removed, main_event_loop, handoff>>

(***************************************************************************)
(* GET /data/{channel_name}/latest/{field_name} : get_field_value          *)
(* CoAP GET /channels/{channel_name}/latest/{field_name}                   *)
(***************************************************************************)
\* A handler that looks at the field before it compares the key.
get_field_value_find_fieldfirst(p, name, api_key, field_name, coap) ==
    /\ Begin(p)
    /\ LET r == [Req(IF coap THEN "coap_latest_field" ELSE "get_field_value", name, api_key)
                    EXCEPT !.field = field_name]
            channel == find_one(channels, name)
        IN procs' = [procs EXCEPT ![p] =
                IF coap /\ api_key = "" THEN Return(r, "MissingApiKey")
                ELSE IF channel = NoChan THEN Return(r, "ChannelNotFound")
                ELSE IF field_name \notin Range(channel.fields)
                     THEN Return([r EXCEPT !.chan = channel], "InvalidField")
                ELSE IF api_key # channel.api_key THEN Return([r EXCEPT !.chan = channel], "InvalidApiKey")
                ELSE [r EXCEPT !.pc = "field_find", !.chan = channel]]
    /\ calls' = calls + 1
    /\ UNCHANGED <<channels, data, now, removed, main_event_loop, handoff>>

get_field_value_find(p, name, api_key, field_name, coap) ==
    /\ Begin(p)
    /\ LET r == [Req(IF coap THEN "coap_latest_field" ELSE "get_field_value", name, api_key)
                    EXCEPT !.field = field_name]
            channel == find_one(channels, name)
        IN procs' = [procs EXCEPT ![p] =
                IF coap /\ api_key = "" THEN Return(r, "MissingApiKey")
                ELSE IF channel = NoChan THEN Return(r, "ChannelNotFound")
                ELSE IF api_key # channel.api_key THEN Return([r EXCEPT !.chan = channel], "InvalidApiKey")
                ELSE IF field_name \notin Range(channel.fields)
                     THEN Return([r EXCEPT !.chan = channel], "InvalidField")
                ELSE [r EXCEPT !.pc = "field_find", !.chan = channel]]
    /\ calls' = calls + 1
    /\ UNCHANGED <<channels, data, now, removed, main_event_loop, handoff>>

\* The response body built from the latest record data[0].
field_value(r, doc) ==
    [x \in {"channel_name", "field", "value", "timestamp"} |->
        CASE x = "channel_name" -> Str(r.name)
          [] x = "field" -> Str(r.field)
          [] x = "value" -> doc[r.field]
          [] x = "timestamp" -> isoformat(doc["timestamp"])]

get_field_value_query(p) ==
    /\ procs[p].pc = "field_find"
    /\ LET r == procs[p]
       IN \E sorted \in Sorted(find_data(data, r.name), -1) :
            procs' = [procs EXCEPT ![p] =
                IF to_list(sorted, 1) = <<>> \/ r.field \notin DOMAIN sorted[1]
                THEN Return(r, "NoData")
                ELSE IF r.op = "coap_latest_field" /\ json_dumps(field_value(r, sorted[1])).exc # ""
                THEN Return(r, "InternalServerError")
                ELSE Return([r EXCEPT !.out = <<field_value(r, sorted[1])>>], "OK")]
    /\ UNCHANGED <<channels, data, now, calls, removed, main_event_loop, handoff>>

(***************************************************************************)
(* DELETE /channels/{channel_name} : delete_channel                        *)
(***************************************************************************)
delete_channel_find(p, name, api_key) ==
    /\ Begin(p)
    /\ LET r == Req("delete_channel", name, api_key)
            channel == find_one(channels, name)
        IN procs' = [procs EXCEPT ![p] =
                IF channel = NoChan THEN Return(r, "ChannelNotFound")
                ELSE IF api_key # channel.api_key THEN Return([r EXCEPT !.chan = channel], "InvalidApiKey")
                ELSE [r EXCEPT !.pc = "delete_channel_doc", !.chan = channel]]
    /\ calls' = calls + 1
    /\ UNCHANGED <<channels, data, now, removed, main_event_loop, handoff>>

delete_channel_doc(p) ==
    /\ procs[p].pc = "delete_channel_doc"
    /\ channels' = delete_one(channels, procs[p].name)
    /\ procs' = [procs EXCEPT ![p].pc = "delete_channel_data"]
    /\ UNCHANGED <<data, now, calls, removed, main_event_loop, handoff>>

delete_channel_data(p) ==
    /\ procs[p].pc = "delete_channel_data"
    /\ data' = delete_many(data, procs[p].name)
    /\ procs' = [procs EXCEPT ![p] = Return(procs[p], "OK")]
    /\ UNCHANGED <<channels, now, calls, removed, main_event_loop, handoff>>

(***************************************************************************)
(* DELETE /channels/{channel_name}/fields/{field_name} : delete_field      *)
(***************************************************************************)
delete_field_find(p, name, api_key, field_name) ==
    /\ Begin(p)
    /\ LET r == [Req("delete_field", name, api_key) EXCEPT !.field = field_name]
            channel == find_one(channels, name)
        IN procs' = [procs EXCEPT ![p] =
                IF channel = NoChan THEN Return(r, "ChannelNotFound")
                ELSE IF api_key # channel.api_key THEN Return([r EXCEPT !.chan = channel], "InvalidApiKey")
                ELSE IF field_name \notin Range(channel.fields)
                     THEN Return([r EXCEPT !.chan = channel], "FieldNotFound")
                ELSE [r EXCEPT !.pc = "delete_field_pull", !.chan = channel]]
    /\ calls' = calls + 1
    /\ UNCHANGED <<channels, data, now, removed, main_event_loop, handoff>>

delete_field_pull(p) ==
    /\ procs[p].pc = "delete_field_pull"
    /\ channels' = update_one_pull(channels, procs[p].name, procs[p].field)
    /\ procs' = [procs EXCEPT ![p].pc = "delete_field_data"]
    /\ UNCHANGED <<data, now, calls, removed, main_event_loop, handoff>>

delete_field_data(p) ==
    /\ procs[p].pc = "delete_field_data"
    /\ data' = update_many_set_na(data, procs[p].name, procs[p].field)
    /\ procs' = [procs EXCEPT ![p] = Return(procs[p], "OK")]
    /\ removed' = Prune(removed \cup {<<procs[p].name, procs[p].field>>}, channels)
    /\ UNCHANGED <<channels, now, calls, main_event_loop, handoff>>

(***************************************************************************)
(* PATCH /channels/{channel_name} : update_channel_fields                  *)
(***************************************************************************)
\* list(current_fields): the elements of the set in the order Python
\* happens to iterate them.
FieldOrder == <<"level", "status", "tank_id", "timestamp">>
ListOf(S) == SelectSeq(FieldOrder, LAMBDA f : f \in S)

\* A PATCH that overwrites the data of the removed fields but keeps them in
\* the fields list.
update_channel_fields_find_keep(p, name, api_key, update) ==
    /\ Begin(p)
    /\ LET r == [Req("update_channel_fields", name, api_key) EXCEPT
                        !.add = update[1], !.rem = update[2]]
            channel == find_one(channels, name)
            current_fields == Range(channel.fields) \cup Range(update[1])
        IN procs' = [procs EXCEPT ![p] =
                IF channel = NoChan THEN Return(r, "ChannelNotFound")
                ELSE IF api_key # channel.api_key THEN Return([r EXCEPT !.chan = channel], "InvalidApiKey")
                ELSE [r EXCEPT !.pc = IF update[2] # <<>> THEN "patch_data" ELSE "patch_fields",
                               !.chan = channel, !.todo = update[2],
                               !.cur = ListOf(current_fields)]]
    /\ calls' = calls + 1
    /\ UNCHANGED <<channels, data, now, removed, main_event_loop, handoff>>

update_channel_fields_find(p, name, api_key, update) ==
    /\ Begin(p)
    /\ LET r == [Req("update_channel_fields", name, api_key) EXCEPT
                        !.add = update[1], !.rem = update[2]]
            channel == find_one(channels, name)
            current_fields == (Range(channel.fields) \cup Range(update[1])) \ Range(update[2])
        IN procs' = [procs EXCEPT ![p] =
                IF channel = NoChan THEN Return(r, "ChannelNotFound")
                ELSE IF api_key # channel.api_key THEN Return([r EXCEPT !.chan = channel], "InvalidApiKey")
                ELSE [r EXCEPT !.pc = IF update[2] # <<>> THEN "patch_data" ELSE "patch_fields",
                               !.chan = channel, !.todo = update[2],
                               !.cur = ListOf(current_fields)]]
    /\ calls' = calls + 1
    /\ UNCHANGED <<channels, data, now, removed, main_event_loop, handoff>>

\* One pass of the loop over remove_fields.
update_channel_fields_data(p) ==
    /\ procs[p].pc = "patch_data"
    /\ data' = update_many_set_na(data, procs[p].name, Head(procs[p].todo))
    /\ procs' = [procs EXCEPT ![p].todo = Tail(@),
                              ![p].pc = IF Tail(procs[p].todo) = <<>> THEN "patch_fields" ELSE "patch_data"]
    /\ UNCHANGED <<channels, now, calls, removed, main_event_loop, handoff>>

\* A PATCH that also takes the key of every added field out of the channel's
\* records.
update_channel_fields_update_unset(p) ==
    /\ procs[p].pc = "patch_fields"
    /\ channels' = update_one_set_fields(channels, procs[p].name, procs[p].cur)
    /\ data' = [i \in DOMAIN data |->
                    IF data[i]["tank_id"] = Str(procs[p].name)
                    THEN [x \in DOMAIN data[i] \ (Range(procs[p].add) \ {"_id", "tank_id", "timestamp"}) |-> data[i][x]]
                    ELSE data[i]]
    /\ procs' = [procs EXCEPT ![p] = Return(procs[p], "OK")]
    /\ removed' = Prune(removed \cup {<<procs[p].name, f>> : f \in Range(procs[p].rem)}, channels')
    /\ UNCHANGED <<now, calls, main_event_loop, handoff>>

update_channel_fields_update(p) ==
    /\ procs[p].pc = "patch_fields"
    /\ channels' = update_one_set_fields(channels, procs[p].name, procs[p].cur)
    /\ procs' = [procs EXCEPT ![p] = Return(procs[p], "OK")]
    /\ removed' = Prune(removed \cup {<<procs[p].name, f>> : f \in Range(procs[p].rem)}, channels')
    /\ UNCHANGED <<data, now, calls, main_event_loop, handoff>>

(***************************************************************************)
(* The wall clock.                                                         *)
(***************************************************************************)
Tick ==
    /\ now < MaxTime
    /\ now' = now + 1
    /\ UNCHANGED <<channels, data, calls, procs, removed, main_event_loop, handoff>>

(***************************************************************************)
(* The system and its clients.  The store starts empty or holding channel  *)
(* c1 as a completed registration leaves it.                               *)
(***************************************************************************)
Registered(name, api_key, fields, initial_values) ==
    [chs |-> <<[channel_name |-> name, api_key |-> api_key, fields |-> fields]>>,
     docs |-> <<WithId(SeedDoc(name, 0, fields, initial_values), 0)>>]

InitWith(stores) ==
    /\ \E st \in stores : channels = st.chs /\ data = st.docs
    /\ now = 0
    /\ calls = 0
    /\ procs = [p \in Procs |-> Idle]
    /\ removed = {}
    /\ main_event_loop = "running"
    /\ handoff = <<>>

Empty == [chs |-> <<>>, docs |-> <<>>]

Bag1(f, v) == [x \in {f} |-> v]
Bag2(f, v, g, w) == [x \in {f, g} |-> IF x = f THEN v ELSE w]

\* Requests of the clients of specification Spec.
InitFields == {<<"level", "status">>, <<"level", "timestamp">>, <<"tank_id", "level">>}
Bags == {Bag1("level", Str("75.2")),
         Bag2("status", Str("online"), "timestamp", Str("60")),
         Bag1("tank_id", Str("c2")),
         Bag1("pressure", Num(10))}
MqttBags == {Bag1("level", Str("75.2")), Bag1("tank_id", Str("c2"))}
StrBags == {b \in Bags : \A x \in DOMAIN b : b[x].k = "str"}
Removals == {"level", "timestamp", "tank_id"}
Updates == {<<<<>>, <<"level">>>>, <<<<"status">>, <<"timestamp">>>>}

Init == InitWith({Empty} \cup {Registered("c1", "K1", f, EmptyBag) : f \in InitFields})

Next ==
    \/ Tick
    \/ \E bag \in MqttBags : on_message("c1", JsonObject(bag))
    \/ \E p \in Procs :
        \/ \E api_key \in Keys : create_channel_find(p, "c1", <<"level">>, EmptyBag, api_key)
        \/ create_channel_insert(p)
        \/ create_channel_seed(p)
        \/ \E bag \in Bags : write_data_find(p, "c1", "K1", bag)
        \/ write_data_insert(p)
        \/ \E bag \in StrBags : update_query_find(p, "c1", "K1", bag)
        \/ update_query_insert(p)
        \/ \E bag \in Bags : render_put_find(p, "c1", "K1", bag)
        \/ render_put_insert(p)
        \/ save_mqtt_data_find(p)
        \/ save_mqtt_data_insert(p)
        \/ get_historical_data_find(p, "c1", "K1", "", -1, -1, 100)
        \/ get_historical_data_query(p)
        \/ delete_channel_find(p, "c1", "K1")
        \/ delete_channel_doc(p)
        \/ delete_channel_data(p)
        \/ \E field_name \in Removals : delete_field_find(p, "c1", "K1", field_name)
        \/ delete_field_pull(p)
        \/ delete_field_data(p)
        \/ \E update \in Updates : update_channel_fields_find(p, "c1", "K1", update)
        \/ update_channel_fields_data(p)
        \/ update_channel_fields_update(p)

Spec == Init /\ [][Next]_vars

(***************************************************************************)
(* Vocabulary of the properties.                                           *)
(***************************************************************************)
IngestOps == {"write_data", "update_query", "render_put", "save_mqtt_data"}
InsertPcs == {"write_insert", "query_insert", "put_insert", "mqtt_insert"}
SystemKeys == {"_id", "tank_id", "timestamp"}

\* The step in which slot p issues a request and its handler runs up to its
\* first await after the channel lookup.
Begins(p) == Free(p) /\ procs'[p].pc # "idle" /\ procs'[p].id # procs[p].id

\* The step in which the ingest in slot p inserts its record and returns.
Inserts(p) == procs[p].pc \in InsertPcs /\ procs'[p].pc = "done"

\* The step in which the registration in slot p inserts its seed record.
Seeds(p) == procs[p].pc = "create_insert_data" /\ procs'[p].pc = "done"

Last(seq) == seq[Len(seq)]

\* C1: an ingest (HTTP JSON, HTTP query, CoAP PUT, MQTT save) on an existing
\* channel whose bag holds no name of the channel's field set is rejected with
\* NoValidFields, and the data collection is the same after the call as before.
C1_NoValidFieldsRejected ==
    [][\A p \in Procs :
        LET r == procs'[p]
            channel == find_one(channels, r.name)
        IN /\ (/\ Begins(p)
               /\ r.op \in IngestOps
               /\ channel # NoChan
               /\ r.op # "save_mqtt_data" => r.key = channel.api_key
               /\ DOMAIN r.bag \cap Range(channel.fields) = {})
              => r.pc = "done" /\ r.status = "NoValidFields" /\ data' = data
           /\ Inserts(p) => DOMAIN r.bag \cap Range(r.chan.fields) # {}]_vars

\* C2: every record a write path persists (registration seed, HTTP JSON,
\* HTTP query, CoAP PUT, MQTT save) carries the timestamp the server stamped
\* and the name of the channel the request addressed, whatever the bag or
\* the initial values hold.
C2_ServerStampedRecord ==
    [][\A p \in Procs :
        (Inserts(p) \/ Seeds(p)) =>
            /\ Len(data') = Len(data) + 1
            /\ Last(data')["timestamp"] = Date(procs[p].ts)
            /\ Last(data')["tank_id"] = Str(procs[p].name)]_vars

Succeeded(r) == r.pc = "done" /\ r.status \in {"Created", "OK", "Saved"}

\* C3 (as amended): every key of the values of a record an ingest inserts
\* was a member of the channel's field set in the state in which the ingest
\* looked the channel up.
C3_KeysInFieldsAtLookup ==
    [][\A p \in Procs :
        /\ (Begins(p) /\ procs'[p].pc \in InsertPcs) =>
                procs'[p].chan = find_one(channels, procs'[p].name)
        /\ Inserts(p) =>
                /\ Len(data') = Len(data) + 1
                /\ DOMAIN Last(data') \ SystemKeys \subseteq Range(procs[p].chan.fields)]_vars

\* C3 (as claimed): every key of the values of a record an ingest inserts is
\* a member of the channel's field set in the state in which the record is
\* inserted, also when a field removal or a delete ran since the lookup.
C3_KeysInFieldsAtInsert ==
    [][\A p \in Procs :
        Inserts(p) =>
            DOMAIN Last(data') \ SystemKeys
                \subseteq Range(find_one(channels, procs[p].name).fields)]_vars

\* An ingest is about to insert a record one of whose value keys was a field
\* of the channel at the lookup and has been removed since.
C3_Witness ==
    \E p \in Procs :
        /\ procs[p].pc \in InsertPcs
        /\ \E x \in DOMAIN procs[p].doc \ SystemKeys :
            /\ x \in Range(procs[p].chan.fields)
            /\ x \notin Range(find_one(channels, procs[p].name).fields)

\* C5: the step in which an ingest inserts its record increases the number
\* of data records of the channel by exactly one and leaves every record that
\* was stored before as it was.
C5_IngestAddsOneRecord ==
    [][\A p \in Procs : Inserts(p) =>
            /\ Len(find_data(data', procs[p].name)) = Len(find_data(data, procs[p].name)) + 1
            /\ Len(data') >= Len(data)
            /\ \A i \in 1..Len(data) : data'[i] = data[i]]_vars

\* The canonical stored value of a raw value: the number a numeric string
\* denotes, the raw value otherwise.
Canonical(v) == IF v.k = "str" /\ v.s \in NumericStrings THEN Num(ParseFloat(v.s)) ELSE v

\* C6: an ingest whose bag holds a name of the field set F it looked up is
\* accepted, and the record it inserts has, besides _id, tank_id and
\* timestamp, exactly the keys of the bag that are in F, each with the number
\* its raw value denotes ("75.2" becomes 75.2) or else the raw value unchanged.
C6_StoredValuesCoerced ==
    [][\A p \in Procs :
        /\ LET r == procs'[p]
                channel == find_one(channels, r.name)
           IN (/\ Begins(p) /\ r.op \in IngestOps /\ channel # NoChan
               /\ r.op # "save_mqtt_data" => r.key = channel.api_key
               /\ DOMAIN r.bag \cap Range(channel.fields) # {})
              => r.pc \in InsertPcs
        /\ Inserts(p) =>
            LET r == procs[p]
                kept == DOMAIN r.bag \cap Range(r.chan.fields)
                doc == Last(data')
            IN /\ DOMAIN doc = SystemKeys \cup kept
               /\ \A x \in kept : doc[x] = Canonical(r.bag[x])]_vars

\* The request in slot p has passed the channel lookup and the key check.
Rejected(p) == procs[p].pc = "done" /\ procs[p].status = "NoValidFields"
Accepted(p) == procs[p].pc \in InsertPcs \/ Succeeded(procs[p])
Values(doc) == [x \in DOMAIN doc \ SystemKeys |-> doc[x]]

\* C7: two ingests, through whichever write paths, that looked up the same
\* field set and carry the same bag are either both rejected or both accepted
\* with the same keys and the same values in their records.
C7_WritePathsAgree ==
    \A p, q \in Procs :
        (/\ procs[p].op \in IngestOps /\ procs[q].op \in IngestOps
         /\ Rejected(p) \/ Accepted(p)
         /\ Rejected(q) \/ Accepted(q)
         /\ procs[p].chan.fields = procs[q].chan.fields
         /\ procs[p].bag = procs[q].bag)
        => \/ Rejected(p) /\ Rejected(q)
           \/ /\ Accepted(p) /\ Accepted(q)
              /\ Values(procs[p].doc) = Values(procs[q].doc)

(***************************************************************************)
(* Specification SpecSeq: one client, one call at a time, on a channel     *)
(* that holds a seed record with values.                                   *)
(***************************************************************************)
SeqValues == Bag2("level", Num(10), "status", Str("online"))

\* PATCH bodies of the sequential client: those of Updates, and one that adds
\* a field it also removes.
SeqUpdates == Updates \cup {<<<<"status">>, <<"tank_id", "status">>>>}

InitSeq == InitWith({Registered("c1", "K1", f, SeqValues) : f \in InitFields})

NextSeq ==
    \/ Tick
    \/ \E bag \in Bags : write_data_find("p1", "c1", "K1", bag)
    \/ write_data_insert("p1")
    \/ \E field_name \in {"", "level"} : get_historical_data_find("p1", "c1", "K1", field_name, -1, -1, 100)
    \/ get_historical_data_query("p1")
    \/ \E coap \in BOOLEAN : get_latest_data_find("p1", "c1", "K1", coap)
    \/ get_latest_data_query("p1")
    \/ \E field_name \in Removals : delete_field_find("p1", "c1", "K1", field_name)
    \/ delete_field_pull("p1")
    \/ delete_field_data("p1")
    \/ \E update \in SeqUpdates : update_channel_fields_find("p1", "c1", "K1", update)
    \/ update_channel_fields_data("p1")
    \/ update_channel_fields_update("p1")

SpecSeq == InitSeq /\ [][NextSeq]_vars

\* The step in which the field removal in slot p returns, and the fields it
\* removes.
RemovalReturns(p) ==
    /\ procs[p].pc \in {"delete_field_data", "patch_fields"}
    /\ procs'[p].pc = "done"
RemovedBy(r) == IF r.op = "delete_field" THEN {r.field} ELSE Range(r.rem)

\* C8: when a field removal (DELETE of a field, or PATCH remove_fields) for
\* field f of channel C returns with no other call in progress, every data
\* record of C holds "N/A" under key f, f is not in the fields list of C, and
\* a history read without field_name returns no entry that has the key f.
C8_FieldRemovalEffects ==
    [][RemovalReturns("p1") =>
        LET r == procs["p1"]
            channel == find_one(channels', r.name)
        IN \A f \in RemovedBy(r) :
            /\ \A i \in 1..Len(data') :
                    (data[i]["tank_id"] = Str(r.name) \/ data'[i]["tank_id"] = Str(r.name))
                    => f \in DOMAIN data'[i] /\ data'[i][f] = NA
            /\ f \notin Range(channel.fields)
            /\ \A out \in historical_data(data', r.name, -1, -1, 100, channel.fields) :
                    \A i \in DOMAIN out : f \notin DOMAIN out[i]]_vars

\* The step in which the field removal in slot p overwrites the data records,
\* and the field it overwrites.
Overwrites(p) ==
    /\ procs[p].pc \in {"delete_field_data", "patch_data"}
    /\ procs'[p] # procs[p]
Overwritten(r) == IF r.op = "delete_field" THEN r.field ELSE Head(r.todo)

\* C9 (as amended): the overwrite of a field removal for field f of channel C
\* puts "N/A" under key f in every data record of C that is stored at that
\* step, and a stored record that holds "N/A" under a key holds it for as long
\* as it is stored.  (A record inserted later by an ingest that looked the
\* channel up before the removal is not covered.)
C9_RemovalOverwritesStored ==
    [][/\ \A p \in Procs : Overwrites(p) =>
            /\ Len(data') = Len(data)
            /\ \A i \in 1..Len(data) :
                    data[i]["tank_id"] = Str(procs[p].name)
                    => LET f == Overwritten(procs[p])
                       IN f \in DOMAIN data'[i] /\ data'[i][f] = NA
       /\ \A i \in 1..Len(data), j \in 1..Len(data') :
            data'[j]["_id"] = data[i]["_id"]
            => \A x \in DOMAIN data[i] :
                    data[i][x] = NA => x \in DOMAIN data'[j] /\ data'[j][x] = NA]_vars

\* C9 (as claimed): once a field removal for field f of channel C has
\* returned, and as long as f is not added to C again, no data record of C
\* holds a value other than "N/A" under key f.
C9_NoValueAfterRemoval ==
    \A pr \in removed :
        \A i \in 1..Len(data) :
            (data[i]["tank_id"] = Str(pr[1]) /\ pr[2] \in DOMAIN data[i]) => data[i][pr[2]] = NA

\* A removal of f has returned; the record that was stored when it overwrote
\* holds "N/A" under f, and the record of an ingest that began before the
\* removal and inserted after the overwrite holds a value under f.
C9_Witness ==
    \E p, q \in Procs :
        /\ procs[p].op \in {"delete_field", "update_channel_fields"}
        /\ procs[p].pc = "done" /\ procs[p].status = "OK"
        /\ procs[q].op \in IngestOps /\ Succeeded(procs[q]) /\ procs[q].id < procs[p].id
        /\ \E f \in RemovedBy(procs[p]) \ SystemKeys :
            /\ <<procs[p].name, f>> \in removed
            /\ \E i, j \in 1..Len(data) :
                /\ data[i]["tank_id"] = Str(procs[p].name)
                /\ f \in DOMAIN data[i] /\ data[i][f] = NA
                /\ data[j]["_id"] = Oid(procs[q].id)
                /\ data[j]["tank_id"] = Str(procs[p].name)
                /\ f \in DOMAIN data[j] /\ data[j][f] # NA

\* C10: a registration of a name that began after a delete of that name
\* began, and that has returned, keeps its seed record: the delete, whether
\* still between its two store operations or returned, has not removed it.
C10_RegisterKeepsSeed ==
    \A p, q \in Procs :
        (/\ procs[p].op = "delete_channel" /\ procs[p].chan # NoChan
         /\ procs[p].status \in {"", "OK"}
         /\ procs[q].op = "create_channel" /\ procs[q].name = procs[p].name
         /\ procs[q].pc = "done" /\ procs[q].status = "Created"
         /\ procs[p].id < procs[q].id)
        => \E i \in 1..Len(data) :
                data[i]["_id"] = Oid(procs[q].id) /\ data[i]["tank_id"] = Str(procs[q].name)

\* The store is as a PATCH with the arguments of r leaves it: the fields
\* added and not removed are fields of the channel, the fields removed are
\* not, and every
\* data record of the channel holds "N/A" under each field removed.
Patched(r, chs, docs) ==
    /\ Range(r.add) \ Range(r.rem) \subseteq Range(find_one(chs, r.name).fields)
    /\ Range(r.rem) \cap Range(find_one(chs, r.name).fields) = {}
    /\ \A i \in 1..Len(docs) : docs[i]["tank_id"] = Str(r.name) =>
            \A f \in Range(r.rem) : f \in DOMAIN docs[i] /\ docs[i][f] = NA

\* C15: a PATCH with add_fields A and remove_fields R on a channel with field
\* set F leaves the field set (F \cup A) \ R, and leaves the store as a PATCH
\* with these arguments leaves it; a PATCH applied to a store that is already
\* so changes neither the field set nor any data record.
C15_PatchIsSetUpdate ==
    [][LET r == procs["p1"]
       IN (r.op = "update_channel_fields" /\ r.pc \in {"patch_data", "patch_fields"}
           /\ procs'["p1"] # r) =>
            /\ procs'["p1"].pc = "done" =>
                /\ Range(find_one(channels', r.name).fields)
                        = (Range(r.chan.fields) \cup Range(r.add)) \ Range(r.rem)
                /\ Patched(r, channels', data')
            /\ (/\ Range(r.add) \ Range(r.rem) \subseteq Range(r.chan.fields)
                /\ Range(r.rem) \cap Range(r.chan.fields) = {}
                /\ Patched(r, channels, data))
               => /\ data' = data
                  /\ Range(find_one(channels', r.name).fields) = Range(r.chan.fields)]_vars

\* The second of two equal PATCH calls is in progress: the removal of the
\* first stands, and the lookup found the field set the first left.
C15_Witness ==
    LET r == procs["p1"]
    IN /\ r.op = "update_channel_fields" /\ r.pc = "patch_data" /\ r.id = 2
       /\ r.add # <<>> /\ r.rem # <<>>
       /\ \A f \in Range(r.rem) : <<r.name, f>> \in removed
       /\ Patched(r, channels, data)
       /\ find_data(data, r.name) # <<>>

(***************************************************************************)
(* Specification SpecAuth: every operation that takes an API key, called   *)
(* with the right key, another key and the empty key, on a channel that    *)
(* exists, is being registered or does not exist.                          *)
(***************************************************************************)
InitAuth == InitWith({Empty, Registered("c1", "K1", <<"level">>, EmptyBag)})

AuthKeys == {"K1", "K2", ""}
AuthFields == {"level", "status"}

NextAuth ==
    \/ Tick
    \/ \E p \in Procs :
        \/ create_channel_find(p, "c1", <<"level">>, EmptyBag, "K1")
        \/ create_channel_insert(p)
        \/ create_channel_seed(p)
        \/ \E api_key \in AuthKeys : get_channel(p, "c1", api_key)
        \/ \E api_key \in AuthKeys : write_data_find(p, "c1", api_key, Bag1("level", Str("75.2")))
        \/ write_data_insert(p)
        \/ \E api_key \in AuthKeys : update_query_find(p, "c1", api_key, Bag1("level", Str("75.2")))
        \/ update_query_insert(p)
        \/ \E api_key \in AuthKeys : render_put_find(p, "c1", api_key, Bag1("level", Str("75.2")))
        \/ render_put_insert(p)
        \/ \E api_key \in AuthKeys, field_name \in AuthFields \cup {""} :
                get_historical_data_find(p, "c1", api_key, field_name, -1, -1, 100)
        \/ get_historical_data_query(p)
        \/ \E api_key \in AuthKeys, coap \in BOOLEAN : get_latest_data_find(p, "c1", api_key, coap)
        \/ get_latest_data_query(p)
        \/ \E api_key \in AuthKeys, field_name \in AuthFields, coap \in BOOLEAN :
                get_field_value_find(p, "c1", api_key, field_name, coap)
        \/ get_field_value_query(p)
        \/ \E api_key \in AuthKeys : delete_channel_find(p, "c1", api_key)
        \/ delete_channel_doc(p)
        \/ delete_channel_data(p)
        \/ \E api_key \in AuthKeys, field_name \in AuthFields :
                delete_field_find(p, "c1", api_key, field_name)
        \/ delete_field_pull(p)
        \/ delete_field_data(p)
        \/ \E api_key \in AuthKeys :
                update_channel_fields_find(p, "c1", api_key, <<<<"status">>, <<"level">>>>)
        \/ update_channel_fields_data(p)
        \/ update_channel_fields_update(p)

SpecAuth == InitAuth /\ [][NextAuth]_vars

AuthOps == {"get_channel", "update_channel_fields", "delete_channel", "delete_field",
            "write_data", "update_query", "render_put", "get_historical_data",
            "get_latest_data", "get_field_value", "coap_latest", "coap_latest_field"}
\* The handlers that answer "API key is required" before they look the
\* channel up.
KeyRequiredOps == {"update_query", "render_put", "coap_latest", "coap_latest_field"}

\* C4 (as amended): an authorized operation called on an existing channel
\* with a key that differs from the stored key fails with InvalidApiKey and
\* changes nothing, whether or not the requested field or any data record
\* exists; except that the HTTP query write and the CoAP handlers answer
\* MissingApiKey to an empty key, and that on a channel that does not exist
\* the answer is ChannelNotFound.
C4_WrongKeyOnExistingChannel ==
    [][\A p \in Procs :
        LET r == procs'[p]
            channel == find_one(channels, r.name)
            missing == r.op \in KeyRequiredOps /\ r.key = ""
        IN (Begins(p) /\ r.op \in AuthOps) =>
            /\ missing => r.pc = "done" /\ r.status = "MissingApiKey"
            /\ (~missing /\ channel = NoChan) => r.pc = "done" /\ r.status = "ChannelNotFound"
            /\ (~missing /\ channel # NoChan /\ r.key # channel.api_key) =>
                    /\ r.pc = "done" /\ r.status = "InvalidApiKey"
                    /\ channels' = channels /\ data' = data]_vars

\* C4 (as claimed): an authorized operation called with a key that differs
\* from the channel's stored key fails with InvalidApiKey whether or not the
\* channel, the field or any data record exists.
C4_WrongKeyAlwaysInvalid ==
    [][\A p \in Procs :
        LET r == procs'[p]
            channel == find_one(channels, r.name)
        IN (Begins(p) /\ r.op \in AuthOps /\ r.key # channel.api_key) =>
                r.status = "InvalidApiKey"]_vars

\* latestField was refused for its key on a channel that has no data record
\* and no such field.
C4_Witness ==
    \E p \in Procs :
        /\ procs[p].op = "get_field_value" /\ procs[p].status = "InvalidApiKey"
        /\ find_one(channels, procs[p].name) # NoChan
        /\ procs[p].field \notin Range(find_one(channels, procs[p].name).fields)
        /\ find_data(data, procs[p].name) = <<>>

\* C12: the channels collection holds at most one channel document per
\* channel name, also when two registrations of the same name interleave
\* between the existence check and the insert.
C12_UniqueChannelName ==
    \A i, j \in DOMAIN channels :
        channels[i].channel_name = channels[j].channel_name => i = j

(***************************************************************************)
(* Specification SpecReuse: delete, list, queries, ingest and a new        *)
(* registration on a name whose store holds one channel document, or two   *)
(* as a pair of interleaved registrations of the same name leaves them.    *)
(***************************************************************************)
Duplicated(name, fields) ==
    [chs |-> <<[channel_name |-> name, api_key |-> "K1", fields |-> fields],
               [channel_name |-> name, api_key |-> "K2", fields |-> fields]>>,
     docs |-> <<WithId(SeedDoc(name, 0, fields, EmptyBag), -1),
                WithId(SeedDoc(name, 0, fields, EmptyBag), 0)>>]

InitReuse == InitWith({Registered("c1", "K1", <<"level">>, EmptyBag), Duplicated("c1", <<"level">>)})

NextReuse ==
    \/ Tick
    \/ \E p \in Procs :
        \/ create_channel_find(p, "c1", <<"level">>, EmptyBag, "K2")
        \/ create_channel_insert(p)
        \/ create_channel_seed(p)
        \/ list_channels(p)
        \/ write_data_find(p, "c1", "K1", Bag1("level", Str("75.2")))
        \/ write_data_insert(p)
        \/ \E api_key \in Keys : get_historical_data_find(p, "c1", api_key, "", -1, -1, 100)
        \/ get_historical_data_query(p)
        \/ \E api_key \in Keys : get_latest_data_find(p, "c1", api_key, FALSE)
        \/ get_latest_data_query(p)
        \/ delete_channel_find(p, "c1", "K1")
        \/ delete_channel_doc(p)
        \/ delete_channel_data(p)

SpecReuse == InitReuse /\ [][NextReuse]_vars

\* The step in which the delete in slot p returns.
DeleteReturns(p) == procs[p].pc = "delete_channel_data" /\ procs'[p].pc = "done"

\* The registration in r has inserted its channel document and began after
\* the request d began.
RegisteredSince(r, d) ==
    /\ r.op = "create_channel" /\ r.name = d.name /\ r.id > d.id
    /\ r.pc = "create_insert_data" \/ (r.pc = "done" /\ r.status = "Created")

\* C11: in the state in which delete(name) returns, unless name has been
\* registered again meanwhile, the list of channels does not contain name and
\* no data record is stored under name for a query to return; and no ingest
\* that looked the channel up before a delete that has returned stores its
\* record under name afterwards.
C11_DeletedChannelGone ==
    [][\A p \in Procs :
        /\ (DeleteReturns(p) /\ \A q \in Procs : ~RegisteredSince(procs'[q], procs[p])) =>
            /\ \A i \in DOMAIN channel_list(channels') :
                    channel_list(channels')[i].channel_name # procs[p].name
            /\ find_data(data', procs[p].name) = <<>>
        /\ (/\ Inserts(p)
            /\ \E q \in Procs : /\ procs[q].op = "delete_channel" /\ procs[q].name = procs[p].name
                                 /\ procs[q].pc = "done" /\ procs[q].status = "OK"
                                 /\ procs[q].id > procs[p].id)
           => Last(data')["tank_id"] # Str(procs[p].name)]_vars

(***************************************************************************)
(* Specification SpecReg: registrations with and without initial values,  *)
(* on a free name and on a taken one, followed or raced by another         *)
(* registration, a PATCH or a field removal.                               *)
(***************************************************************************)
RegFields == {<<"level", "status">>, <<"level", "level">>, <<"tank_id", "level">>}
RegValues == {EmptyBag,
              Bag1("level", Num(10)),
              Bag2("level", Num(10), "pressure", Num(10)),
              Bag2("status", Str("online"), "timestamp", Str("60"))}

InitReg == InitWith({Empty, Registered("c1", "K1", <<"level">>, EmptyBag)})

NextReg ==
    \/ Tick
    \/ \E p \in Procs :
        \/ \E fields \in RegFields, initial_values \in RegValues :
                create_channel_find(p, "c1", fields, initial_values, "K2")
        \/ create_channel_insert(p)
        \/ create_channel_seed(p)
        \/ list_channels(p)
        \/ delete_field_find(p, "c1", "K2", "level")
        \/ delete_field_pull(p)
        \/ delete_field_data(p)
        \/ \E update \in Updates : update_channel_fields_find(p, "c1", "K2", update)
        \/ update_channel_fields_data(p)
        \/ update_channel_fields_update(p)

SpecReg == InitReg /\ [][NextReg]_vars

\* C13: a registration of a name for which a channel document is stored
\* fails with DuplicateChannel, and the channels (keys and fields) and the
\* data records are the same after the call as before.
C13_DuplicateChannelRejected ==
    [][\A p \in Procs :
        LET r == procs'[p]
        IN (Begins(p) /\ r.op = "create_channel" /\ find_one(channels, r.name) # NoChan) =>
            /\ r.pc = "done" /\ r.status = "DuplicateChannel"
            /\ channels' = channels /\ data' = data]_vars

\* A registration was refused on a name whose channel holds a seed record.
C13_Witness ==
    \E p \in Procs :
        /\ procs[p].op = "create_channel" /\ procs[p].status = "DuplicateChannel"
        /\ find_one(channels, procs[p].name) # NoChan
        /\ find_data(data, procs[p].name) # <<>>

\* C14: the fields list of every channel document contains no name more
\* than once.
C14_NoDuplicateFields ==
    \A c \in DOMAIN channels :
        \A i, j \in DOMAIN channels[c].fields :
            channels[c].fields[i] = channels[c].fields[j] => i = j

\* C16: a registration that runs with no other call before or beside it
\* inserts one data record, and in the state in which it returns exactly one
\* data record carries the channel's name.
C16_OneSeedRecord ==
    [][(Seeds("p1") /\ procs["p2"].pc = "idle") =>
            /\ Len(data') = Len(data) + 1
            /\ Len(find_data(data', procs["p1"].name)) = 1]_vars

\* C17: the seed record of a registration with initial_values holds, for
\* every field of the channel, the supplied value when initial_values has the
\* field as a key and "N/A" when it has not.
C17_SeedCoversEveryField ==
    [][\A p \in Procs : (Seeds(p) /\ DOMAIN procs[p].bag # {}) =>
            LET r == procs[p]
                seed == Last(data')
            IN \A f \in Range(r.add) :
                /\ f \in DOMAIN seed
                /\ seed[f] = IF f \in DOMAIN r.bag THEN r.bag[f] ELSE NA]_vars

\* C18: the seed record of a registration without initial_values holds "N/A"
\* under every field of the channel, and has no key besides the fields, _id,
\* tank_id and timestamp.
C18_SeedAllSentinel ==
    [][\A p \in Procs : (Seeds(p) /\ DOMAIN procs[p].bag = {}) =>
            LET r == procs[p]
                seed == Last(data')
            IN /\ Len(data') = Len(data) + 1
               /\ \A f \in Range(r.add) : f \in DOMAIN seed /\ seed[f] = NA
               /\ DOMAIN seed \subseteq SystemKeys \cup Range(r.add)]_vars

\* A registration without initial_values has returned and its seed record,
\* with a field under "N/A", is stored.
C18_Witness ==
    \E p \in Procs :
        /\ procs[p].op = "create_channel" /\ procs[p].status = "Created"
        /\ DOMAIN procs[p].bag = {} /\ procs[p].add # <<>>
        /\ \E i \in 1..Len(data) :
            /\ data[i]["_id"] = Oid(procs[p].id)
            /\ \A f \in Range(procs[p].add) : data[i][f] = NA

\* C19: a registration on a free name whose initial_values hold a key that
\* is no field of the channel goes on to insert channel and seed record and
\* returns Created; the key is no key of the seed record's values, and when
\* it is named like tank_id or timestamp the record keeps the channel name
\* and the time of the registration there.
C19_UndefinedInitialValueDropped ==
    [][\A p \in Procs :
        /\ LET r == procs'[p]
           IN (/\ Begins(p) /\ r.op = "create_channel" /\ find_one(channels, r.name) = NoChan
               /\ DOMAIN r.bag \ Range(r.add) # {})
              => r.pc = "create_insert_channel"
        /\ (Seeds(p) /\ DOMAIN procs[p].bag \ Range(procs[p].add) # {}) =>
            LET r == procs[p]
                seed == Last(data')
            IN /\ procs'[p].status = "Created"
               /\ \A x \in DOMAIN r.bag \ Range(r.add) :
                    \/ x \notin DOMAIN seed
                    \/ x = "timestamp" /\ seed[x] = Date(r.ts)
                    \/ x = "tank_id" /\ seed[x] = Str(r.name)]_vars

\* A registration whose initial_values held a key that is no field has
\* returned Created, and its seed record is stored without that key.
C19_Witness ==
    \E p \in Procs :
        /\ procs[p].op = "create_channel" /\ procs[p].status = "Created"
        /\ "pressure" \in DOMAIN procs[p].bag \ Range(procs[p].add)
        /\ \E i \in 1..Len(data) :
            /\ data[i]["_id"] = Oid(procs[p].id)
            /\ "pressure" \notin DOMAIN data[i]
            /\ \E f \in Range(procs[p].add) : f \in DOMAIN data[i]

\* C20: after the registration and the ingests that followed it one at a
\* time, with no field removal among them, latest with the right key returns
\* a record, and no record written for the channel by the registration or an
\* ingest has a later timestamp than the one returned.
C20_LatestIsMaxTimestamp ==
    [][(procs["p1"].pc = "latest_find" /\ procs'["p1"].pc = "done" /\ removed = {}) =>
            LET r == procs'["p1"]
            IN /\ r.status = "OK"
               /\ Len(r.out) = 1
               /\ \E i \in 1..Len(data) :
                    /\ latest_entry(data[i], r.op = "coap_latest") = r.out[1]
                    /\ \A j \in 1..Len(data) : Leq(data[j]["timestamp"], data[i]["timestamp"])]_vars

(***************************************************************************)
(* Specification SpecRead: one client, one call at a time, that writes,    *)
(* changes the field list and reads the history and single fields with     *)
(* every combination of bounds and limit.                                  *)
(***************************************************************************)
ReadTimes == {-1} \cup (0..MaxTime)       \* -1: the bound is not given
ReadLimits == {1, 100}
ReadFields == {"level", "status", "timestamp", "pressure"}

InitRead == InitWith({Registered("c1", "K1", f, SeqValues) : f \in InitFields})

NextRead ==
    \/ Tick
    \/ \E bag \in Bags : write_data_find("p1", "c1", "K1", bag)
    \/ write_data_insert("p1")
    \/ \E field_name \in {"", "level", "pressure"}, start_time, end_time \in ReadTimes, limit \in ReadLimits :
            get_historical_data_find("p1", "c1", "K1", field_name, start_time, end_time, limit)
    \/ get_historical_data_query("p1")
    \/ \E field_name \in ReadFields, coap \in BOOLEAN :
            get_field_value_find("p1", "c1", "K1", field_name, coap)
    \/ get_field_value_query("p1")
    \/ \E update \in Updates : update_channel_fields_find("p1", "c1", "K1", update)
    \/ update_channel_fields_data("p1")
    \/ update_channel_fields_update("p1")

SpecRead == InitRead /\ [][NextRead]_vars

\* The step in which the history read in slot p returns its list.
HistoryReturns(p) == procs[p].pc = "history_find" /\ procs'[p].pc = "done"

\* The stored records of channel name whose timestamp lies within the bounds
\* that are given.
Matching(name, start_time, end_time) ==
    {i \in 1..Len(data) :
        /\ data[i]["tank_id"] = Str(name)
        /\ start_time # -1 => data[i]["timestamp"].k = "date" /\ start_time <= data[i]["timestamp"].n
        /\ end_time # -1 => data[i]["timestamp"].k = "date" /\ data[i]["timestamp"].n <= end_time}

Min(a, b) == IF a < b THEN a ELSE b

\* C21: a history read with limit in [1,1000] returns min(limit, number of
\* matching records) entries, where the matching records are the records of
\* the channel whose timestamp lies within the given bounds (both inclusive);
\* the entries are distinct matching records in ascending timestamp order, and
\* no matching record left out has a timestamp before one that is returned.
C21_HistoryRangeOrderLimit ==
    [][HistoryReturns("p1") =>
        LET r == procs'["p1"]
            M == Matching(r.name, r.st, r.et)
        IN /\ r.status = "OK"
           /\ r.lim \in 1..1000
           /\ Len(r.out) = Min(r.lim, Cardinality(M))
           /\ \E f \in [1..Len(r.out) -> M] :
                /\ \A j, k \in 1..Len(r.out) : j < k =>
                        /\ f[j] # f[k]
                        /\ Leq(data[f[j]]["timestamp"], data[f[k]]["timestamp"])
                /\ \A j \in 1..Len(r.out) :
                        /\ r.out[j]["timestamp"] = isoformat(data[f[j]]["timestamp"])
                        /\ \A x \in DOMAIN r.out[j] \ {"timestamp"} : 
                                x \in DOMAIN data[f[j]] /\ r.out[j][x] = data[f[j]][x]
                        /\ \A i \in M : (\A k \in 1..Len(r.out) : f[k] # i)
                                => Leq(data[f[j]]["timestamp"], data[i]["timestamp"])]_vars

\* A history read has returned one entry, cut off by its limit, of a channel
\* that holds two records within the bounds, both bounds given.
C21_Witness ==
    LET r == procs["p1"]
    IN /\ r.op = "get_historical_data" /\ r.status = "OK"
       /\ r.st = 0 /\ r.et = 1 /\ r.lim = 1
       /\ Len(r.out) = 1
       /\ Cardinality(Matching(r.name, r.st, r.et)) = 2
       /\ \E i \in 1..Len(data) : data[i]["timestamp"] = Date(1) /\ data[i]["tank_id"] = Str(r.name)

\* The step in which a read of a single field (HTTP or CoAP) in slot p returns.
FieldValueOps == {"get_field_value", "coap_latest_field"}
FieldValueReturns(p) ==
    /\ procs[p].pc # "done"
    /\ procs'[p].pc = "done"
    /\ procs'[p].op \in FieldValueOps

\* The stored records of channel name that no other record of the channel
\* follows in timestamp order.
Latest(name) ==
    {i \in 1..Len(data) :
        /\ data[i]["tank_id"] = Str(name)
        /\ \A j \in 1..Len(data) : data[j]["tank_id"] = Str(name)
                => Leq(data[j]["timestamp"], data[i]["timestamp"])}

\* C22: a read of field f of an existing channel with the right key returns
\* InvalidField when f is not in the channel's field list; NoData when the
\* record with the maximum timestamp has no key f; and otherwise the value
\* that record holds under f together with that record's timestamp.
C22_LatestFieldOutcome ==
    [][FieldValueReturns("p1") =>
        LET r == procs'["p1"]
            channel == find_one(channels, r.name)
        IN (channel # NoChan /\ r.key = channel.api_key) =>
            IF r.field \notin Range(channel.fields) THEN r.status = "InvalidField"
            ELSE \E i \in Latest(r.name) :
                    IF r.field \notin DOMAIN data[i] THEN r.status = "NoData"
                    ELSE /\ r.status = "OK"
                         /\ r.out[1]["value"] = data[i][r.field]
                         /\ r.out[1]["timestamp"] = isoformat(data[i]["timestamp"])]_vars

\* C23: an MQTT message for channel name is handled without an API key; when
\* the channel exists at the lookup one record of channel name is persisted,
\* and when it does not exist the message is dropped and nothing is persisted.
C23_MqttPersistsWithoutKey ==
    [][\A p \in Procs :
        LET r == procs'[p]
        IN /\ (Begins(p) /\ r.op = "save_mqtt_data") =>
                /\ data' = data
                /\ IF find_one(channels, r.name) = NoChan
                   THEN r.pc = "done" /\ r.status = "Skipped"
                   ELSE r.pc = "mqtt_insert"
           /\ (Inserts(p) /\ r.op = "save_mqtt_data") =>
                /\ Len(data') = Len(data) + 1
                /\ SubSeq(data', 1, Len(data)) = data
                /\ Last(data')["tank_id"] = Str(r.name)]_vars

(***************************************************************************)
(* Specification SpecLife: two clients that register channel c1, read its  *)
(* latest record with the key of the registration, and delete it.          *)
(***************************************************************************)
InitLife == InitWith({Empty, Registered("c1", "K1", <<"level">>, EmptyBag)})

NextLife ==
    \/ Tick
    \/ \E p \in Procs :
        \/ create_channel_find(p, "c1", <<"level">>, EmptyBag, "K1")
        \/ create_channel_insert(p)
        \/ create_channel_seed(p)
        \/ \E coap \in BOOLEAN : get_latest_data_find(p, "c1", "K1", coap)
        \/ get_latest_data_query(p)
        \/ delete_channel_find(p, "c1", "K1")
        \/ delete_channel_doc(p)
        \/ delete_channel_data(p)

SpecLife == InitLife /\ [][NextLife]_vars

\* The step in which the read of the latest record in slot p returns, after
\* it found the channel and the key matched.
LatestReturns(p) == procs[p].pc = "latest_find" /\ procs'[p].pc = "done"

\* C24: in every state every channel document has at least one data record
\* stored under its name, and a read of the latest record that found the
\* channel with the right key never returns NoData, also while a
\* registration or a delete of the name is in progress.
C24_ChannelAlwaysHasRecord ==
    /\ [](\A i \in 1..Len(channels) : find_data(data, channels[i].channel_name) # <<>>)
    /\ [][\A p \in Procs : LatestReturns(p) => procs'[p].status # "NoData"]_vars

(***************************************************************************)
(* Specification SpecIngest: the three authenticated write paths, called   *)
(* with the right key, another key and the empty key, with bags that hold  *)
(* a field of the channel or none, on a channel that exists, is being      *)
(* registered or does not exist.                                           *)
(***************************************************************************)
IngestBags == {Bag1("level", Str("75.2")), Bag1("pressure", Str("60")), EmptyBag}

InitIngest == InitWith({Empty, Registered("c1", "K1", <<"level">>, EmptyBag)})

NextIngest ==
    \/ Tick
    \/ \E p \in Procs :
        \/ create_channel_find(p, "c1", <<"level">>, EmptyBag, "K1")
        \/ create_channel_insert(p)
        \/ create_channel_seed(p)
        \/ \E api_key \in AuthKeys, bag \in IngestBags : write_data_find(p, "c1", api_key, bag)
        \/ write_data_insert(p)
        \/ \E api_key \in AuthKeys, bag \in IngestBags : update_query_find(p, "c1", api_key, bag)
        \/ update_query_insert(p)
        \/ \E api_key \in AuthKeys, bag \in IngestBags : render_put_find(p, "c1", api_key, bag)
        \/ render_put_insert(p)

SpecIngest == InitIngest /\ [][NextIngest]_vars

AuthIngestOps == {"write_data", "update_query", "render_put"}

\* C25 (as amended): an authenticated ingest on a name with no channel
\* returns ChannelNotFound whatever the key and the bag, and on an existing
\* channel with a key that differs from the stored one InvalidApiKey whatever
\* the bag, except that the HTTP query write and the CoAP PUT answer an empty
\* key with MissingApiKey before they look the channel up; NoValidFields is
\* returned only when the channel exists and the key matches; none of these
\* answers stores anything.
C25_IngestCheckOrder ==
    [][\A p \in Procs :
        LET r == procs'[p]
            channel == find_one(channels, r.name)
            missing == r.op \in KeyRequiredOps /\ r.key = ""
        IN (Begins(p) /\ r.op \in AuthIngestOps) =>
            /\ missing => r.pc = "done" /\ r.status = "MissingApiKey"
            /\ (~missing /\ channel = NoChan) => r.pc = "done" /\ r.status = "ChannelNotFound"
            /\ (~missing /\ channel # NoChan /\ r.key # channel.api_key) =>
                    r.pc = "done" /\ r.status = "InvalidApiKey"
            /\ r.status = "NoValidFields" => channel # NoChan /\ r.key = channel.api_key
            /\ data' = data /\ channels' = channels]_vars

\* C25 (as claimed): an authenticated ingest on a name with no channel
\* returns ChannelNotFound whatever the key and the bag, on an existing
\* channel with a wrong key InvalidApiKey whatever the bag, and NoValidFields
\* only when the channel exists and the key matches.
C25_LookupKeyCoercion ==
    [][\A p \in Procs :
        LET r == procs'[p]
            channel == find_one(channels, r.name)
        IN (Begins(p) /\ r.op \in AuthIngestOps) =>
            /\ channel = NoChan => r.pc = "done" /\ r.status = "ChannelNotFound"
            /\ (channel # NoChan /\ r.key # channel.api_key) =>
                    r.pc = "done" /\ r.status = "InvalidApiKey"
            /\ r.status = "NoValidFields" => channel # NoChan /\ r.key = channel.api_key]_vars

\* An ingest whose bag holds no field of the channel was refused for its key
\* on an existing channel.
C25_Witness ==
    \E p \in Procs :
        LET r == procs[p]
        IN /\ r.op \in AuthIngestOps /\ r.status = "InvalidApiKey"
           /\ r.key = "K2"
           /\ find_one(channels, r.name) # NoChan
           /\ DOMAIN r.bag \cap Range(find_one(channels, r.name).fields) = {}

\* C26: a history read of an existing channel with the right key returns
\* InvalidField when field_name is given and is not in the channel's field
\* list; otherwise every entry it returns has the key timestamp and, besides
\* it, only the requested field (field_name given) or only fields of the
\* channel's field list (field_name not given).
C26_HistoryProjection ==
    [][(procs["p1"].pc # "done" /\ procs'["p1"].pc = "done" /\ procs'["p1"].op = "get_historical_data") =>
        LET r == procs'["p1"]
            channel == find_one(channels, r.name)
        IN (channel # NoChan /\ r.key = channel.api_key) =>
            IF r.field # "" /\ r.field \notin Range(channel.fields)
            THEN r.status = "InvalidField" /\ r.out = <<>>
            ELSE /\ r.status = "OK"
                 /\ \A j \in 1..Len(r.out) :
                        /\ "timestamp" \in DOMAIN r.out[j]
                        /\ DOMAIN r.out[j] \ {"timestamp"} \subseteq
                                (IF r.field # "" THEN {r.field} ELSE Range(channel.fields))]_vars

\* A history read without field_name has returned entries of a channel whose
\* stored records still hold a key that has left the field list.
C26_Witness ==
    LET r == procs["p1"]
        channel == find_one(channels, r.name)
    IN /\ r.op = "get_historical_data" /\ r.status = "OK" /\ r.field = ""
       /\ r.out # <<>>
       /\ channel # NoChan
       /\ \E i \in 1..Len(data) :
            /\ data[i]["tank_id"] = Str(r.name)
            /\ "level" \in DOMAIN data[i]
            /\ "level" \notin Range(channel.fields)
       /\ \A j \in 1..Len(r.out) : "level" \notin DOMAIN r.out[j]

(***************************************************************************)
(* Specification SpecMqtt: MQTT messages for channel c1, with payloads     *)
(* that are JSON objects, another JSON value or no JSON, while the main    *)
(* loop runs or does not run, and a client that deletes the channel.  The  *)
(* loop keeps the state it starts in: start-up and shutdown of the process *)
(* are not part of the model.  A running loop runs every coroutine that is *)
(* ready, so the steps of the handlers are weakly fair.                    *)
(***************************************************************************)
MqttPayloads == {JsonObject(Bag1("level", Num(752))), JsonObject(Bag1("pressure", Num(10))),
                 JsonArray, JsonInvalid}

InitMqtt ==
    /\ \E st \in {Empty, Registered("c1", "K1", <<"level">>, EmptyBag)} :
            channels = st.chs /\ data = st.docs
    /\ now = 0
    /\ calls = 0
    /\ procs = [p \in Procs |-> Idle]
    /\ removed = {}
    /\ main_event_loop \in {"running", "stopped"}
    /\ handoff = <<>>

NextMqtt ==
    \/ Tick
    \/ \E payload \in MqttPayloads : on_message("c1", payload)
    \/ \E p \in Procs :
        \/ save_mqtt_data_find(p)
        \/ save_mqtt_data_insert(p)
        \/ delete_channel_find(p, "c1", "K1")
        \/ delete_channel_doc(p)
        \/ delete_channel_data(p)

SpecMqtt ==
    /\ InitMqtt /\ [][NextMqtt]_vars
    /\ WF_vars(\E p \in Procs : save_mqtt_data_find(p))
    /\ WF_vars(\E p \in Procs : save_mqtt_data_insert(p))
    /\ WF_vars(\E p \in Procs : delete_channel_doc(p))
    /\ WF_vars(\E p \in Procs : delete_channel_data(p))

\* The message numbered k has been submitted to the loop and not started.
Queued(k) == \E i \in DOMAIN handoff : handoff[i].id = k
\* The coroutine of message k has found its channel and is about to insert.
Inserting(k) ==
    \E p \in Procs : procs[p].op = "save_mqtt_data" /\ procs[p].id = k /\ procs[p].pc = "mqtt_insert"
\* The records persisted for message k.
Records(k) == {i \in 1..Len(data) : data[i]["_id"] = Oid(k)}
\* How often message k is with the loop, waiting or running.
Handed(k) ==
    Cardinality({i \in DOMAIN handoff : handoff[i].id = k})
    + Cardinality({p \in Procs : procs[p].op = "save_mqtt_data" /\ procs[p].id = k /\ procs[p].pc # "done"})

\* A message received while the loop runs is handed to the loop once, and at
\* most one record is ever persisted for it; one received while the loop does
\* not run is not handed over, and nothing is persisted then.
HandedOverOnce ==
    /\ [][\A payload \in MqttPayloads : on_message("c1", payload) =>
            /\ data' = data /\ procs' = procs
            /\ (main_event_loop = "running" /\ payload.json # "invalid")
                    => Cardinality({i \in DOMAIN handoff' : handoff'[i].id = calls'}) = 1
            /\ main_event_loop # "running" => handoff' = handoff]_vars
    /\ [](\A k \in 1..MaxCalls : Handed(k) <= 1 /\ Cardinality(Records(k)) <= 1)
    /\ [][main_event_loop # "running" => data' = data]_vars

\* The coroutine of a message with a payload in Payloads goes on to insert a
\* record when it finds the channel.
GoesOnToInsert(Payloads) ==
    \A p \in Procs :
        (/\ Begins(p) /\ procs'[p].op = "save_mqtt_data"
         /\ Head(handoff).data \in Payloads
         /\ find_one(channels, procs'[p].name) # NoChan)
        => procs'[p].pc = "mqtt_insert"

\* Every coroutine handed over is started, and every one that goes on to
\* insert has its one record persisted.
EventuallyPersisted ==
    \A k \in 1..MaxCalls :
        /\ Queued(k) ~> ~Queued(k)
        /\ Inserting(k) ~> (Cardinality(Records(k)) = 1)

\* C27 (as amended): a message whose payload is a JSON object, received
\* while the main loop runs, is handed to the loop exactly once, its
\* coroutine is started, and when it finds its channel exactly one record is
\* persisted for it; a message received while the loop does not run is not
\* handed over and no record is persisted.
C27_MqttObjectDelivered ==
    /\ HandedOverOnce
    /\ [][GoesOnToInsert({x \in MqttPayloads : x.json = "object"})]_vars
    /\ EventuallyPersisted

\* C27 (as claimed): the same of every message whose payload json.loads
\* decodes.
C27_MqttDecodableDelivered ==
    /\ HandedOverOnce
    /\ [][GoesOnToInsert({x \in MqttPayloads : x.json # "invalid"})]_vars
    /\ EventuallyPersisted

\* A message received while the loop runs has been persisted as one record.
C27_Witness ==
    \E p \in Procs :
        /\ procs[p].op = "save_mqtt_data" /\ procs[p].status = "Saved"
        /\ main_event_loop = "running"
        /\ Cardinality(Records(procs[p].id)) = 1

\* The step in which the delete in slot p removes the channel document.
DeletesChannel(p) == procs[p].pc = "delete_channel_doc" /\ procs'[p].pc # "delete_channel_doc"

\* C28: no step other than the removal of the channel document by a delete
\* changes the name or the API key of a channel document; and the key a
\* registration has returned is the key the channel is authorized with for
\* as long as the channel exists and no delete of it has been issued.
C28_NameAndKeyImmutable ==
    /\ [][(\A p \in Procs : ~DeletesChannel(p)) =>
            \A i \in DOMAIN channels :
                /\ i \in DOMAIN channels'
                /\ channels'[i].channel_name = channels[i].channel_name
                /\ channels'[i].api_key = channels[i].api_key]_vars
    /\ [](\A p \in Procs :
            (/\ procs[p].op = "create_channel" /\ procs[p].status = "Created"
             /\ \A q \in Procs : procs[q].op # "delete_channel"
             /\ find_one(channels, procs[p].name) # NoChan)
            => find_one(channels, procs[p].name).api_key = procs[p].key)

\* C29: when two PATCH calls on the same channel that ran concurrently have
\* both returned, the channel's field list holds every field that either call
\* added and neither removed, and no field that either call removed and
\* neither added.
C29_ConcurrentPatchesBothApplied ==
    LET a == procs["p1"]
        b == procs["p2"]
        fields == Range(find_one(channels, a.name).fields)
        added == Range(a.add) \cup Range(b.add)
        taken == Range(a.rem) \cup Range(b.rem)
    IN (/\ a.op = "update_channel_fields" /\ a.pc = "done" /\ a.status = "OK"
        /\ b.op = "update_channel_fields" /\ b.pc = "done" /\ b.status = "OK"
        /\ a.name = b.name)
       => /\ added \ taken \subseteq fields
          /\ (taken \ added) \cap fields = {}

(***************************************************************************)
(* Specification SpecTwo: channel c2 exists with its seed record, and two  *)
(* clients register, write to, change the fields of and delete channel c1, *)
(* with field names and values that name the other channel.                *)
(***************************************************************************)
TwoFields == {<<"level", "status">>, <<"tank_id", "level">>}
TwoBags == {Bag1("level", Str("75.2")), Bag1("tank_id", Str("c2"))}

\* The store after the registrations of the channels of both stores.
Both(s, t) == [chs |-> s.chs \o t.chs, docs |-> s.docs \o t.docs]

InitTwo ==
    InitWith({Both([chs |-> Registered("c2", "K2", <<"level">>, EmptyBag).chs,
                    docs |-> <<WithId(SeedDoc("c2", 0, <<"level">>, EmptyBag), -1)>>], st) :
              st \in {Empty} \cup {Registered("c1", "K1", f, EmptyBag) : f \in TwoFields}})

NextTwo ==
    \/ Tick
    \/ \E bag \in TwoBags : on_message("c1", JsonObject(bag))
    \/ \E p \in Procs :
        \/ \E fields \in TwoFields, initial_values \in TwoBags :
                create_channel_find(p, "c1", fields, initial_values, "K1")
        \/ create_channel_insert(p)
        \/ create_channel_seed(p)
        \/ \E bag \in TwoBags : write_data_find(p, "c1", "K1", bag)
        \/ write_data_insert(p)
        \/ \E bag \in TwoBags : update_query_find(p, "c1", "K1", bag)
        \/ update_query_insert(p)
        \/ \E bag \in TwoBags : render_put_find(p, "c1", "K1", bag)
        \/ render_put_insert(p)
        \/ save_mqtt_data_find(p)
        \/ save_mqtt_data_insert(p)
        \/ delete_channel_find(p, "c1", "K1")
        \/ delete_channel_doc(p)
        \/ delete_channel_data(p)
        \/ \E field_name \in {"level", "tank_id"} : delete_field_find(p, "c1", "K1", field_name)
        \/ delete_field_pull(p)
        \/ delete_field_data(p)
        \/ \E update \in {<<<<"status">>, <<"level">>>>, <<<<"tank_id">>, <<>>>>, <<<<>>, <<"tank_id">>>>} :
                update_channel_fields_find(p, "c1", "K1", update)
        \/ update_channel_fields_data(p)
        \/ update_channel_fields_update(p)

SpecTwo == InitTwo /\ [][NextTwo]_vars

\* The channel documents and the data records stored under name.
ChannelDocs(chs, name) == SelectSeq(chs, LAMBDA c : c.channel_name = name)

\* C30: a step of a register, ingest (any transport), PATCH, field removal or
\* delete addressed to one channel leaves the channel documents of every
\* other name and the data records stored under every other name as they
\* were, whatever field names and values the request carries.
C30_OtherChannelsUntouched ==
    [][\A p \in Procs : procs'[p] # procs[p] =>
        \A other \in Names \ {procs'[p].name} :
            /\ ChannelDocs(channels', other) = ChannelDocs(channels, other)
            /\ find_data(data', other) = find_data(data, other)]_vars

(***************************************************************************)
(* Specification SpecErr: two clients call every operation on channel c1,  *)
(* registered or not, with the right key, a wrong key or no key, with bags *)
(* and field names inside and outside the channel's fields.                *)
(***************************************************************************)
ErrKeys == {"K1", "K2"}
ErrBags == {Bag1("level", Str("75.2")), Bag1("pressure", Num(10))}
ErrFields == {"level", "status"}

InitErr == InitWith({Empty, Registered("c1", "K1", <<"level">>, EmptyBag)})

NextErr ==
    \/ Tick
    \/ \E p \in Procs :
        \/ create_channel_find(p, "c1", <<"level">>, EmptyBag, "K1")
        \/ create_channel_insert(p)
        \/ create_channel_seed(p)
        \/ \E api_key \in ErrKeys, bag \in ErrBags : write_data_find(p, "c1", api_key, bag)
        \/ write_data_insert(p)
        \/ \E api_key \in {"K1", ""}, field \in {"level", "pressure"} :
                update_query_find(p, "c1", api_key, Bag1(field, Str("60")))
        \/ update_query_insert(p)
        \/ \E api_key \in {"K1", ""}, bag \in ErrBags : render_put_find(p, "c1", api_key, bag)
        \/ render_put_insert(p)
        \/ \E field_name \in ErrFields : get_historical_data_find(p, "c1", "K1", field_name, -1, -1, 100)
        \/ get_historical_data_query(p)
        \/ \E coap \in BOOLEAN : get_latest_data_find(p, "c1", "K1", coap)
        \/ get_latest_data_query(p)
        \/ \E field_name \in ErrFields, coap \in BOOLEAN :
                get_field_value_find(p, "c1", "K1", field_name, coap)
        \/ get_field_value_query(p)
        \/ \E api_key \in ErrKeys : delete_channel_find(p, "c1", api_key)
        \/ delete_channel_doc(p)
        \/ delete_channel_data(p)
        \/ \E api_key \in ErrKeys, field_name \in ErrFields :
                delete_field_find(p, "c1", api_key, field_name)
        \/ delete_field_pull(p)
        \/ delete_field_data(p)
        \/ \E api_key \in ErrKeys :
                update_channel_fields_find(p, "c1", api_key, <<<<"status">>, <<"level">>>>)
        \/ update_channel_fields_data(p)
        \/ update_channel_fields_update(p)

SpecErr == InitErr /\ [][NextErr]_vars

ErrorStatuses == {"DuplicateChannel", "ChannelNotFound", "InvalidApiKey", "InvalidField",
                  "NoValidFields", "NoData", "FieldNotFound", "MissingApiKey"}
ReadOps == {"get_channel", "get_historical_data", "get_latest_data", "coap_latest",
            "get_field_value", "coap_latest_field"}

\* A step of the handler that serves the request in slot p.
Steps(p) == procs'[p] # procs[p]
ReturnsError(p) == Steps(p) /\ procs'[p].pc = "done" /\ procs'[p].status \in ErrorStatuses

\* C31: an operation that returns an error (DuplicateChannel,
\* ChannelNotFound, InvalidApiKey, InvalidField, NoValidFields, NoData, field
\* not found in channel, missing API key) leaves the channels collection and
\* the data collection as they were before the call: the step on which a
\* handler returns the error changes neither collection, and that step is
\* either the handler's only step or the last step of a read operation, none
\* of whose steps changes a collection.
C31_ErrorLeavesStoreUnchanged ==
    [][\A p \in Procs :
        /\ ReturnsError(p) =>
                /\ channels' = channels /\ data' = data
                /\ Begins(p) \/ procs[p].op \in ReadOps
        /\ (Steps(p) /\ procs'[p].op \in ReadOps) => (channels' = channels /\ data' = data)]_vars

\* A write with no field of the channel has been rejected on a store that
\* holds the channel and its records.
C31_Witness ==
    \E p \in Procs :
        /\ procs[p].pc = "done" /\ procs[p].op = "write_data"
        /\ procs[p].status = "NoValidFields"
        /\ find_one(channels, "c1") # NoChan
        /\ find_data(data, "c1") # <<>>

(***************************************************************************)
(* Specification SpecPair: channels c1 and c2 are registered alike, with   *)
(* the same fields and the same seed values.  One client removes a field   *)
(* from c1 with DELETE, another removes the same field from c2 with PATCH; *)
(* the calls run in any interleaving.                                      *)
(***************************************************************************)
PairFieldLists == {<<"level", "status">>, <<"level", "timestamp">>, <<"level", "level">>}
PairValues == {EmptyBag, Bag1("level", Num(10))}
PairRemovals == {"level", "status", "timestamp", "pressure"}

InitPair ==
    InitWith({Both(Registered("c1", "K1", f, v), Registered("c2", "K2", f, v)) :
                f \in PairFieldLists, v \in PairValues})

NextPair ==
    \E p \in Procs :
        \/ \E field_name \in PairRemovals : delete_field_find(p, "c1", "K1", field_name)
        \/ delete_field_pull(p)
        \/ delete_field_data(p)
        \/ \E field_name \in PairRemovals :
                update_channel_fields_find(p, "c2", "K2", <<<<>>, <<field_name>>>>)
        \/ update_channel_fields_data(p)
        \/ update_channel_fields_update(p)

SpecPair == InitPair /\ [][NextPair]_vars

\* The records of channel name, named as records of c1.
RecordsAsC1(docs, name) ==
    [i \in DOMAIN find_data(docs, name) |->
        [find_data(docs, name)[i] EXCEPT !["tank_id"] = Str("c1")]]

\* Slot p holds a finished DELETE of a field of c1, slot q a finished PATCH
\* that removes the same field from c2.
RemovedBothWays(p, q) ==
    /\ procs[p].pc = "done" /\ procs[p].op = "delete_field" /\ procs[p].name = "c1"
    /\ procs[q].pc = "done" /\ procs[q].op = "update_channel_fields" /\ procs[q].name = "c2"
    /\ procs[q].add = <<>> /\ procs[q].rem = <<procs[p].field>>

\* C32: the two field-removal paths agree.  Applied to channels in the same
\* state with the same field name, in the channel's field set or not, DELETE
\* /channels/{name}/fields/{f} and PATCH with remove_fields = [f] either both
\* reject the request and leave the channel and its records as the request
\* found them, or both succeed and end in the same field set and the same
\* data records.
C32_RemovalPathsAgree ==
    \A p, q \in Procs :
        RemovedBothWays(p, q) =>
            /\ (procs[p].status \in ErrorStatuses) <=> (procs[q].status \in ErrorStatuses)
            /\ procs[p].status \in ErrorStatuses => find_one(channels, "c1") = procs[p].chan
            /\ procs[q].status \in ErrorStatuses => find_one(channels, "c2") = procs[q].chan
            /\ Range(find_one(channels, "c1").fields) = Range(find_one(channels, "c2").fields)
            /\ RecordsAsC1(data, "c1") = RecordsAsC1(data, "c2")

(***************************************************************************)
(* Specification SpecReadd: one client, sequential.  Channel c1 holds its  *)
(* seed record with a value under every field; the store is as the         *)
(* registration left it, as a removal of one field left it, or as a        *)
(* removal followed by a PATCH that added the field again left it.  The    *)
(* client removes fields, adds them, writes and reads the latest value.    *)
(***************************************************************************)
ReaddBags == {Bag1("level", Str("75.2")), Bag1("status", Str("online"))}
ReaddUpdates == {<<<<f>>, <<>>>> : f \in Removals} \cup {<<<<>>, <<f>>>> : f \in Removals}

\* The store after delete_field(name, field) has run on store st.
AfterRemoval(st, name, field) ==
    [chs |-> update_one_pull(st.chs, name, field),
     docs |-> update_many_set_na(st.docs, name, field),
     rem |-> {<<name, field>>}]

\* The store after a PATCH with add_fields = [field] has run on store st.
AfterAdd(st, name, field) ==
    [chs |-> update_one_set_fields(st.chs, name,
                ListOf(Range(find_one(st.chs, name).fields) \cup {field})),
     docs |-> st.docs,
     rem |-> {}]

ReaddStores ==
    LET fresh == {Registered("c1", "K1", f, SeqValues) : f \in InitFields}
        taken == UNION {{AfterRemoval(st, "c1", f) : f \in Range(st.chs[1].fields) \cap Removals} : st \in fresh}
    IN {[chs |-> st.chs, docs |-> st.docs, rem |-> {}] : st \in fresh}
       \cup taken
       \cup UNION {{AfterAdd(st, "c1", pr[2]) : pr \in st.rem} : st \in taken}

InitReadd ==
    /\ \E st \in ReaddStores : channels = st.chs /\ data = st.docs /\ removed = st.rem
    /\ now = 0
    /\ calls = 0
    /\ procs = [p \in Procs |-> Idle]
    /\ main_event_loop = "running"
    /\ handoff = <<>>

NextReadd ==
    \/ Tick
    \/ \E bag \in ReaddBags : write_data_find("p1", "c1", "K1", bag)
    \/ write_data_insert("p1")
    \/ \E field_name \in Removals : delete_field_find("p1", "c1", "K1", field_name)
    \/ delete_field_pull("p1")
    \/ delete_field_data("p1")
    \/ \E update \in ReaddUpdates : update_channel_fields_find("p1", "c1", "K1", update)
    \/ update_channel_fields_data("p1")
    \/ update_channel_fields_update("p1")
    \/ \E field_name \in Removals, coap \in BOOLEAN :
            get_field_value_find("p1", "c1", "K1", field_name, coap)
    \/ get_field_value_query("p1")

SpecReadd == InitReadd /\ [][NextReadd]_vars

\* The record the channel held before any removal: the seed record, which
\* held a value under every field.
Seeded(doc) == doc["_id"] = Oid(0)

\* Field f has been taken out of the channel's records: the seed record
\* holds the sentinel under it.
WasRemoved(f) == \E i \in DOMAIN data : Seeded(data[i]) /\ f \in DOMAIN data[i] /\ data[i][f] = NA

\* The PATCH in slot p returns, having added f.
Readds(p, f) ==
    /\ procs[p].pc = "patch_fields" /\ procs'[p].pc = "done"
    /\ f \in Range(procs[p].add) \ Range(procs[p].rem)

\* A read of the latest value of f returns in slot p, f being a field of the
\* channel that has been removed and added again.
ReadsReadded(p, f) ==
    /\ FieldValueReturns(p)
    /\ procs'[p].field = f
    /\ f \in Range(procs'[p].chan.fields)
    /\ WasRemoved(f)

\* Some record written to channel name after the removal holds a value
\* under f.
SuppliedLater(name, f) ==
    \E i \in DOMAIN data :
        /\ ~Seeded(data[i]) /\ data[i]["tank_id"] = Str(name)
        /\ f \in DOMAIN data[i] /\ data[i][f] # NA

\* C33 (as amended): removing a field f and adding it again does not restore
\* history.  The PATCH that adds f changes no record, so every record that
\* held "N/A" under f before it still does.  A read of the latest value of f
\* reports the channel's latest record only: it returns "N/A" while that
\* record is one the removal overwrote, and NoData when no record is found
\* for the channel or the latest record was written after the removal
\* without a value for f.
C33_ReaddKeepsSentinel ==
    /\ [][\A f \in Removals : Readds("p1", f) =>
            /\ DOMAIN data' = DOMAIN data
            /\ \A i \in DOMAIN data :
                    (f \in DOMAIN data[i] /\ data[i][f] = NA) =>
                        (f \in DOMAIN data'[i] /\ data'[i][f] = NA)]_vars
    /\ [][\A f \in Removals : ReadsReadded("p1", f) =>
            LET r == procs'["p1"]
            IN IF find_data(data, r.name) = <<>> THEN r.status = "NoData"
               ELSE \E i \in Latest(r.name) :
                        IF Seeded(data[i])
                        THEN r.status = "OK" /\ r.out[1]["value"] = NA
                        ELSE f \notin DOMAIN data[i] => r.status = "NoData"]_vars

\* C33 as stated: after f has been removed and added again every record
\* written before the removal holds "N/A" under f, and a read of the latest
\* value of f returns "N/A" until a later ingest supplies a value for f.
C33_ReaddReturnsSentinelUntilSupplied ==
    /\ [][\A f \in Removals : (Readds("p1", f) /\ <<procs["p1"].name, f>> \in removed) =>
            \A i \in DOMAIN data' : Seeded(data'[i]) =>
                (f \in DOMAIN data'[i] /\ data'[i][f] = NA)]_vars
    /\ [][\A f \in Removals : (ReadsReadded("p1", f) /\ ~SuppliedLater(procs'["p1"].name, f)) =>
            /\ procs'["p1"].status = "OK"
            /\ procs'["p1"].out[1]["value"] = NA]_vars

\* Field level has been removed and added again by a PATCH of this client,
\* and a read of its latest value has returned the sentinel.
C33_Witness ==
    LET r == procs["p1"]
    IN /\ r.pc = "done" /\ r.op \in FieldValueOps /\ r.field = "level"
       /\ r.status = "OK" /\ r.out[1]["value"] = NA
       /\ calls = 2
       /\ removed = {}
       /\ WasRemoved("level")

====
